---- MODULE Spec2Model ----
(***************************************************************************)
(* Behaviour-tree engine of Botcraft (botcraft/AI/BehaviourTree.hpp):      *)
(* nodes live in a heap indexed by node id, Tick is the recursive          *)
(* evaluation the C++ virtual calls perform, and the fluent builder is a   *)
(* root Builder plus a chain of nested Composite/Decorator builders.       *)
(***************************************************************************)
EXTENDS Integers, Sequences, FiniteSets, TLC

VARIABLES
    heap,     \* node id -> node object (fields of Composite/Decorator/Repeater/BehaviourTree)
    broot,    \* Builder::root (0 = nullptr)
    bstack,   \* chain of nested builders, innermost last: [kind, node]
    built,    \* ids of the BehaviourTree objects returned by build()
    lastop,   \* the most recent construction call: [op, on, target, added]
    last,     \* the outer Tick just made, if any: [root, status, trace, res, it0, it1, len]
    prev,     \* the outer Tick before it
    hist,     \* SpecRepeater: the ticks since construction, each [child, status];
              \* Spec, SpecFresh: Repeater id -> the failures it has counted since
              \* its counter was last assigned 0 (ids no tick has assigned left out)
    \* InventoryManager (botcraft/src/Game/Inventory/InventoryManager.cpp)
    inventories,             \* std::map<short, shared_ptr<Inventory>>: window id -> slot map
    cursor,                  \* InventoryManager::cursor
    index_hotbar_selected,   \* InventoryManager::index_hotbar_selected
    inventory_manager_mutex, \* the thread holding the mutex (0 = unlocked)
    threads,                 \* per thread: the call it is in and the statement it is at
    handled,                 \* how many calls on the manager have completed
    lastcall,                \* the last of them: [op, window_id, slot, data, items, count]
    before,                  \* the manager's state when the last of them began
    ret,                     \* what the last GetHotbarSelected returned
    \* ServerboundKeyPacket (protocolCraft/Messages/Login/Serverbound/ServerboundKeyPacket.hpp)
    packet,   \* the message written: [key_bytes, nonce, salt_signature]
    wire,     \* the bytes Write produced from it
    decoded   \* the message Read filled from those bytes, and the message as it
              \* was made before the Read: [v, rest, ok, fresh]

btvars == <<heap, broot, bstack, built, lastop, last, prev, hist>>
invvars == <<inventories, cursor, index_hotbar_selected, inventory_manager_mutex,
             threads, handled, lastcall, before, ret>>
codecvars == <<packet, wire, decoded>>
vars == <<btvars, invvars, codecvars>>

----------------------------------------------------------------------------
(* Bounds of the model *)

MaxNodes == 2        \* leaves, composites and decorators made through the builder
MaxTrees == 2        \* trees returned by build(); trees made in SpecTree
MaxTreeUses == 1     \* places a built tree is put into by tree(arg)
MaxCount == 3        \* failures a Repeater counts in a row before the model stops ticking it
MaxChildren == 3     \* children given to the composite of SpecComposite / SpecDual
MaxN == 3            \* largest n passed to Repeater(n)
MaxTicks == 6        \* ticks recorded in the Repeater history

----------------------------------------------------------------------------
(* Values *)

Null == 0            \* nullptr

\* enum class Status
Status == {"Failure", "Running", "Success"}

\* A tick that does not return: null dereference, singular-iterator check,
\* unbounded recursion.
Fault == "Fault"

\* size_t, kept at its 64-bit width as four 16-bit limbs, most significant first.
SizeZero == <<0, 0, 0, 0>>
SizeMax == <<65535, 65535, 65535, 65535>>
SizeOf(k) == <<0, 0, 0, k>>

\* counter++ on a size_t (wraps from SizeMax to 0)
IncSize(c) ==
    IF c[4] < 65535 THEN <<c[1], c[2], c[3], c[4] + 1>>
    ELSE IF c[3] < 65535 THEN <<c[1], c[2], c[3] + 1, 0>>
    ELSE IF c[2] < 65535 THEN <<c[1], c[2] + 1, 0, 0>>
    ELSE IF c[1] < 65535 THEN <<c[1] + 1, 0, 0, 0>>
    ELSE SizeZero

\* An uninitialised 64-bit member (size_t counter, long long int salt) holds
\* whatever its storage held when the object was made: any of the 2^64 values.
Indeterminate == [1..4 -> 0..65535]

\* The storage contents the model constructs Repeaters on.  Tick reads the
\* counter only in `++counter == n`, so what a Repeater(n) does depends on
\* the failures it takes to bring the counter to n: the set holds, for
\* every n in use and every d in 1..MaxTicks, the value d failures short of
\* n (the small values up to MaxN - 1 and the last MaxTicks values before
\* size_t wraps), and values no run of MaxTicks failures brings to n: those
\* at and above MaxN, 8, the largest values of one, two and three limbs, the
\* pattern 0x0707070707070707 of reused heap storage and a heap address
\* (0x55e9e3926f30).
StorageValues ==
    {g \in {SizeOf(k) : k \in 0..(MaxN + 1) \cup {8, 65535}}
            \cup {<<0, 0, 65535, 65535>>, <<0, 65535, 65535, 65535>>,
                  <<1799, 1799, 1799, 1799>>, <<0, 21993, 58258, 28464>>}
            \cup {<<65535, 65535, 65535, 65535 - k>> : k \in 0..(MaxTicks - 1)} :
        g \in Indeterminate}

\* Those of them the builder's Repeaters are made on, whose ticks the model
\* follows for MaxCount failures in a row and the tick after them: for every
\* n in use and every d in 1..MaxCount + 1 the value d failures short of n,
\* and two values no such run brings to n.
BuilderStorage ==
    {g \in {SizeOf(k) : k \in 0..(MaxN - 1) \cup {8}}
            \cup {<<1799, 1799, 1799, 1799>>}
            \cup {<<65535, 65535, 65535, 65535 - k>> : k \in 0..MaxCount} :
        g \in StorageValues}

\* Outcomes of comparing a default-constructed (singular) vector iterator with
\* end() of an empty vector: equal (plain pointer iterators) or a failed
\* iterator-debugging check.
SingularOutcomes == {"end", Fault}

\* How one outer tick resolves the undefined comparison it meets: [iter]
Undefined(h) ==
    [iter : IF \E i \in DOMAIN h : h[i].kind \in {"Sequence", "Selector"} /\ h[i].it = 0
            THEN SingularOutcomes ELSE {"end"}]

\* The fields a node object may carry; each class uses its own.
Blank == [kind |-> "Node", children |-> <<>>, it |-> 0, child |-> Null,
          n |-> SizeZero, counter |-> SizeZero]

\* Composite(): children empty, it default-constructed (0 = singular)
NewComposite(k) == [Blank EXCEPT !.kind = k]

\* Decorator() { child = nullptr; }
NewDecorator(k) == [Blank EXCEPT !.kind = k, !.child = Null]

\* Leaf(func)
NewLeaf == [Blank EXCEPT !.kind = "Leaf"]

\* Repeater(n_) { n = n_; conter = 0; }: no member is called conter, and as
\* written the constructor cannot be compiled (IllFormed where a Repeater is
\* made).  In a build that takes it, n is set and counter is not assigned: it
\* keeps g, what the storage the object is made in held.
NewRepeater(n, g) == [Blank EXCEPT !.kind = "Repeater", !.n = n, !.counter = g]

\* BehaviourTree() { root = nullptr; }  (root is kept in field child)
NewBehaviourTree == [Blank EXCEPT !.kind = "BehaviourTree", !.child = Null]

CompositeKinds == {"Sequence", "Selector"}
DecoratorKinds == {"Inverter", "Succeeder", "Repeater"}

\* The heap is the sequence of the node objects made so far; an object's id
\* is its place in it.
Leaves(h) == {i \in DOMAIN h : h[i].kind = "Leaf"}
\* make_shared<T>(...): the new object and its id
Fresh(h) == Len(h) + 1
Alloc(h, obj) == Append(h, obj)

\* Composite::AddChild
AddChild(h, c, x) ==
    [h EXCEPT ![c].children = Append(@, x), ![c].it = 1]

\* Decorator::SetChild
SetChild(h, d, x) == [h EXCEPT ![d].child = x]

\* BehaviourTree::SetRoot
SetRoot(h, t, x) == [h EXCEPT ![t].child = x]

----------------------------------------------------------------------------
(* Tick.  A tick returns [status, heap, trace]: the status, the heap after *)
(* the call, and the calls that returned, in order, each [node, status].   *)
(* A tick that faults ends the trace with the node it faulted in.          *)

Ret(s, h, tr) == [status |-> s, heap |-> h, trace |-> tr]
FaultAt(id, h) == Ret(Fault, h, <<[node |-> id, status |-> Fault]>>)

RECURSIVE TickNode(_, _, _, _, _)
RECURSIVE SequenceLoop(_, _, _, _, _, _)
RECURSIVE SelectorLoop(_, _, _, _, _, _)

\* Leaf::Tick: return func(context); res is what each leaf's function returns
\* during this outer tick.
LeafTick(id, h, res) == Ret(res[id], h, <<>>)

\* Departures from the code, each of which the property named with it tells
\* apart from the code.

\* A Sequence that leaves its cursor on the child that failed.
SequenceLoopKeepsCursor(id, h, res, ub, path, tr) ==
    IF h[id].it = Len(h[id].children) + 1
    THEN Ret("Success", [h EXCEPT ![id].it = 1], tr)
    ELSE LET r == TickNode(h[id].children[h[id].it], h, res, ub, path \cup {id})
             t2 == tr \o r.trace
         IN  CASE r.status = "Failure" -> Ret("Failure", r.heap, t2)
               [] r.status = "Running" -> Ret("Running", r.heap, t2)
               [] r.status = "Success" ->
                      SequenceLoop(id, [r.heap EXCEPT ![id].it = @ + 1], res, ub, path, t2)
               [] OTHER -> Ret(Fault, r.heap, t2)

\* A Sequence that goes back to its first child after a Running child.
SequenceLoopRestarts(id, h, res, ub, path, tr) ==
    IF h[id].it = Len(h[id].children) + 1
    THEN Ret("Success", [h EXCEPT ![id].it = 1], tr)
    ELSE LET r == TickNode(h[id].children[h[id].it], h, res, ub, path \cup {id})
             t2 == tr \o r.trace
         IN  CASE r.status = "Failure" -> Ret("Failure", [r.heap EXCEPT ![id].it = 1], t2)
               [] r.status = "Running" -> Ret("Running", [r.heap EXCEPT ![id].it = 1], t2)
               [] r.status = "Success" ->
                      SequenceLoop(id, [r.heap EXCEPT ![id].it = @ + 1], res, ub, path, t2)
               [] OTHER -> Ret(Fault, r.heap, t2)

\* A Selector that goes on to the next child after a Running child.
SelectorLoopSkipsRunning(id, h, res, ub, path, tr) ==
    IF h[id].it = Len(h[id].children) + 1
    THEN Ret("Failure", [h EXCEPT ![id].it = 1], tr)
    ELSE LET r == TickNode(h[id].children[h[id].it], h, res, ub, path \cup {id})
             t2 == tr \o r.trace
         IN  CASE r.status \in {"Failure", "Running"} ->
                      SelectorLoop(id, [r.heap EXCEPT ![id].it = @ + 1], res, ub, path, t2)
               [] r.status = "Success" -> Ret("Success", [r.heap EXCEPT ![id].it = 1], t2)
               [] OTHER -> Ret(Fault, r.heap, t2)

\* An Inverter that hands a Success of its child on unchanged.
InverterTickKeepsSuccess(id, h, res, ub, path) ==
    IF h[id].child = Null
    THEN FaultAt(id, h)
    ELSE LET r == TickNode(h[id].child, h, res, ub, path \cup {id})
         IN  CASE r.status = "Failure" -> Ret("Success", r.heap, r.trace)
               [] r.status = "Running" -> Ret("Running", r.heap, r.trace)
               [] r.status = "Success" -> Ret("Success", r.heap, r.trace)
               [] OTHER -> Ret(Fault, r.heap, r.trace)

\* A BehaviourTree that returns Success when it has no root.
BehaviourTreeTickEmptySucceeds(id, h, res, ub, path) ==
    IF h[id].child = Null
    THEN Ret("Success", h, <<>>)
    ELSE TickNode(h[id].child, h, res, ub, path \cup {id})

\* BehaviourTree::Tick
BehaviourTreeTick(id, h, res, ub, path) ==
    IF h[id].child = Null
    THEN Ret("Failure", h, <<>>)
    ELSE TickNode(h[id].child, h, res, ub, path \cup {id})

\* Sequence::Tick, the while loop from the current it
SequenceLoop(id, h, res, ub, path, tr) ==
    IF h[id].it = Len(h[id].children) + 1
    THEN Ret("Success", [h EXCEPT ![id].it = 1], tr)
    ELSE LET r == TickNode(h[id].children[h[id].it], h, res, ub, path \cup {id})
             t2 == tr \o r.trace
         IN  CASE r.status = "Failure" -> Ret("Failure", [r.heap EXCEPT ![id].it = 1], t2)
               [] r.status = "Running" -> Ret("Running", r.heap, t2)
               [] r.status = "Success" ->
                      SequenceLoop(id, [r.heap EXCEPT ![id].it = @ + 1], res, ub, path, t2)
               [] OTHER -> Ret(Fault, r.heap, t2)

\* Sequence::Tick
SequenceTick(id, h, res, ub, path) ==
    IF h[id].it = 0
    THEN IF ub.iter = Fault THEN FaultAt(id, h)
         ELSE Ret("Success", [h EXCEPT ![id].it = 1], <<>>)
    ELSE SequenceLoop(id, h, res, ub, path, <<>>)

\* Selector::Tick, the while loop from the current it
SelectorLoop(id, h, res, ub, path, tr) ==
    IF h[id].it = Len(h[id].children) + 1
    THEN Ret("Failure", [h EXCEPT ![id].it = 1], tr)
    ELSE LET r == TickNode(h[id].children[h[id].it], h, res, ub, path \cup {id})
             t2 == tr \o r.trace
         IN  CASE r.status = "Failure" ->
                      SelectorLoop(id, [r.heap EXCEPT ![id].it = @ + 1], res, ub, path, t2)
               [] r.status = "Running" -> Ret("Running", r.heap, t2)
               [] r.status = "Success" -> Ret("Success", [r.heap EXCEPT ![id].it = 1], t2)
               [] OTHER -> Ret(Fault, r.heap, t2)

\* Selector::Tick
SelectorTick(id, h, res, ub, path) ==
    IF h[id].it = 0
    THEN IF ub.iter = Fault THEN FaultAt(id, h)
         ELSE Ret("Failure", [h EXCEPT ![id].it = 1], <<>>)
    ELSE SelectorLoop(id, h, res, ub, path, <<>>)

\* Inverter::Tick; child->Tick on a null child does not return.
InverterTick(id, h, res, ub, path) ==
    IF h[id].child = Null
    THEN FaultAt(id, h)
    ELSE LET r == TickNode(h[id].child, h, res, ub, path \cup {id})
         IN  CASE r.status = "Failure" -> Ret("Success", r.heap, r.trace)
               [] r.status = "Running" -> Ret("Running", r.heap, r.trace)
               [] r.status = "Success" -> Ret("Failure", r.heap, r.trace)
               [] OTHER -> Ret(Fault, r.heap, r.trace)

\* Succeeder::Tick
SucceederTick(id, h, res, ub, path) ==
    IF h[id].child = Null
    THEN FaultAt(id, h)
    ELSE LET r == TickNode(h[id].child, h, res, ub, path \cup {id})
         IN  CASE r.status = "Failure" -> Ret("Success", r.heap, r.trace)
               [] r.status = "Running" -> Ret("Running", r.heap, r.trace)
               [] r.status = "Success" -> Ret("Success", r.heap, r.trace)
               [] OTHER -> Ret(Fault, r.heap, r.trace)

\* Repeater::Tick
RepeaterTick(id, h, res, ub, path) ==
    IF h[id].child = Null
    THEN FaultAt(id, h)
    ELSE LET r == TickNode(h[id].child, h, res, ub, path \cup {id})
             c == IncSize(r.heap[id].counter)
         IN  CASE r.status = "Failure" ->
                      IF c = r.heap[id].n
                      THEN Ret("Failure", [r.heap EXCEPT ![id].counter = SizeZero], r.trace)
                      ELSE Ret("Running", [r.heap EXCEPT ![id].counter = c], r.trace)
               [] r.status = "Running" -> Ret("Running", r.heap, r.trace)
               [] r.status = "Success" ->
                      Ret("Success", [r.heap EXCEPT ![id].counter = SizeZero], r.trace)
               [] OTHER -> Ret(Fault, r.heap, r.trace)

\* node->Tick(context): virtual dispatch on the node's class.  A node that is
\* already on the call path is re-entered in the state it was entered in, so
\* the recursion never returns.
TickNode(id, h, res, ub, path) ==
    IF id \in path
    THEN FaultAt(id, h)
    ELSE LET k == h[id].kind
             r == CASE k = "Leaf" -> LeafTick(id, h, res)
                    [] k = "BehaviourTree" -> BehaviourTreeTick(id, h, res, ub, path)
                    [] k = "Sequence" -> SequenceTick(id, h, res, ub, path)
                    [] k = "Selector" -> SelectorTick(id, h, res, ub, path)
                    [] k = "Inverter" -> InverterTick(id, h, res, ub, path)
                    [] k = "Succeeder" -> SucceederTick(id, h, res, ub, path)
                    [] k = "Repeater" -> RepeaterTick(id, h, res, ub, path)
         IN  IF r.status = Fault
             THEN r
             ELSE Ret(r.status, r.heap, Append(r.trace, [node |-> id, status |-> r.status]))

\* One tick by the scheduler, and the record kept of it.
OuterTick(id, h, res, ub) == TickNode(id, h, res, ub, {})

TickRecord(id, h, res, r) ==
    [root |-> id, status |-> r.status, trace |-> r.trace, res |-> res,
     it0 |-> h[id].it, it1 |-> r.heap[id].it, len |-> Len(h[id].children)]

NoTick == [root |-> Null, status |-> "None", trace |-> <<>>, res |-> <<>>,
           it0 |-> 0, it1 |-> 0, len |-> 0]
NoOp == [op |-> "none", on |-> "none", target |-> Null, added |-> Null]

\* A call that cannot be compiled: the program that makes it has no build,
\* so the call adds no node and nothing follows it.
IllFormed == -1

\* The process is gone once a tick has faulted, and there is none when the
\* program holds a call that cannot be compiled.
Alive == last.status # Fault /\ lastop.added # IllFormed

\* The Repeaters whose counter the tick with result r assigns on heap h:
\* counter++ changes it, counter = 0 comes with Success or Failure.
Assigns(h, r) ==
    {i \in DOMAIN h :
        /\ h[i].kind = "Repeater"
        /\ \/ r.heap[i].counter # h[i].counter
           \/ \E j \in DOMAIN r.trace :
                  r.trace[j].node = i /\ r.trace[j].status \in {"Success", "Failure"}}

\* The failures each Repeater has counted in a row once the tick with result
\* r is made on heap h, c being the counts before it: counter = 0 starts the
\* count again, counter++ adds to it.
Counted(c, h, r) ==
    [i \in DOMAIN c \cup Assigns(h, r) |->
        LET was == IF i \in DOMAIN c THEN c[i] ELSE 0
        IN  IF \E j \in DOMAIN r.trace :
                   r.trace[j].node = i /\ r.trace[j].status \in {"Success", "Failure"}
            THEN 0
            ELSE IF r.heap[i].counter # h[i].counter THEN was + 1 ELSE was]

\* The ticks the model follows: those that leave no Repeater with more than
\* MaxCount failures counted in a row.
WithinCount(c) == \A i \in DOMAIN c : c[i] <= MaxCount

----------------------------------------------------------------------------
(* InventoryManager: the window id -> inventory map, the cursor and the     *)
(* selected hotbar index, and the member functions that change them.       *)

MaxMessages == 3     \* calls made on the manager in one run

\* Inventory::PLAYER_INVENTORY_INDEX and Inventory::INVENTORY_HOTBAR_START
PLAYER_INVENTORY_INDEX == 0
INVENTORY_HOTBAR_START == 36

\* Slot(), the empty slot, and the slots with something in them
EmptySlot == "Empty"
Items == {"X", "Y"}

\* conversion of an integer to short
ToShort(v) == ((v + 32768) % 65536) - 32768

\* f with key k bound to v (operator[] of std::map followed by assignment)
Put(f, k, v) == [x \in (DOMAIN f) \cup {k} |-> IF x = k THEN v ELSE f[x]]

\* new Inventory: no slot stored
NewInventory == <<>>

\* InventoryManager::InventoryManager
NewInventoryManager ==
    [inventories |-> <<>>, cursor |-> EmptySlot, index_hotbar_selected |-> 0]

\* the manager's three members as one value
Manager == [inventories |-> inventories, cursor |-> cursor,
            index_hotbar_selected |-> index_hotbar_selected]

\* A SetSlot that makes a new inventory every time.
SetSlotAlwaysNew(inv, window_id, index, slot) ==
    Put(inv, window_id, Put(NewInventory, index, slot))

\* InventoryManager::SetSlot
SetSlot(inv, window_id, index, slot) ==
    IF window_id \notin DOMAIN inv
    THEN Put(inv, window_id, Put(NewInventory, index, slot))
    ELSE Put(inv, window_id, Put(inv[window_id], index, slot))

\* InventoryManager::GetInventory: nullptr when the id is not in the map
GetInventory(inv, window_id) ==
    IF window_id \notin DOMAIN inv
    THEN [present |-> FALSE, slots |-> <<>>]
    ELSE [present |-> TRUE, slots |-> inv[window_id]]

\* InventoryManager::GetPlayerInventory
GetPlayerInventory(inv) == GetInventory(inv, PLAYER_INVENTORY_INDEX)

\* Inventory::GetSlot: the slot stored at the index, the empty slot if none is
InventoryGetSlot(slots, index) ==
    IF index \in DOMAIN slots THEN slots[index] ELSE EmptySlot

\* InventoryManager::EraseInventory
EraseInventory(inv, window_id) == [x \in (DOMAIN inv) \ {window_id} |-> inv[x]]

\* An AddInventory that keeps an inventory already there.
AddInventoryKeeps(inv, window_id) ==
    IF window_id \in DOMAIN inv THEN inv ELSE Put(inv, window_id, NewInventory)

\* InventoryManager::AddInventory
AddInventory(inv, window_id) == Put(inv, window_id, NewInventory)

\* InventoryManager::SetHotbarSelected
SetHotbarSelected(m, index) == [m EXCEPT !.index_hotbar_selected = index]

\* InventoryManager::SetCursor
SetCursor(m, c) == [m EXCEPT !.cursor = c]

\* A Handle(SetSlot&) that takes window -1 for the cursor whatever the slot.
HandleSetSlotCursorAnySlot(m, window_id, slot, slot_data) ==
    IF window_id = -1
    THEN SetCursor(m, slot_data)
    ELSE IF window_id = -2
    THEN [m EXCEPT !.inventories = SetSlot(@, PLAYER_INVENTORY_INDEX, slot, slot_data)]
    ELSE IF window_id >= 0
    THEN [m EXCEPT !.inventories = SetSlot(@, window_id, slot, slot_data)]
    ELSE m

\* A Handle(SetSlot&) that stores under a window id it does not know.
HandleSetSlotAnyWindow(m, window_id, slot, slot_data) ==
    IF window_id = -1 /\ slot = -1
    THEN SetCursor(m, slot_data)
    ELSE IF window_id = -2
    THEN [m EXCEPT !.inventories = SetSlot(@, PLAYER_INVENTORY_INDEX, slot, slot_data)]
    ELSE [m EXCEPT !.inventories = SetSlot(@, window_id, slot, slot_data)]

\* InventoryManager::Handle(SetSlot&), between taking and releasing the mutex
HandleSetSlot(m, window_id, slot, slot_data) ==
    IF window_id = -1 /\ slot = -1
    THEN SetCursor(m, slot_data)
    ELSE IF window_id = -2
    THEN [m EXCEPT !.inventories = SetSlot(@, PLAYER_INVENTORY_INDEX, slot, slot_data)]
    ELSE IF window_id >= 0
    THEN [m EXCEPT !.inventories = SetSlot(@, window_id, slot, slot_data)]
    ELSE m

\* msg.GetSlotData()[i] on the std::vector<Slot> the message carries (kept
\* from index 1 here): element i exists when i < size().
InSlotData(slot_data, i) == i >= 0 /\ i < Len(slot_data)

\* The Slots msg.GetSlotData()[i] can give the SetSlot call: element i where
\* there is one; operator[] makes no check, and past the end it hands over
\* whatever lies behind the vector's storage, read as a Slot.
SlotDataAt(slot_data, i) ==
    IF InSlotData(slot_data, i) THEN {slot_data[i + 1]} ELSE {EmptySlot} \cup Items

\* InventoryManager::Handle(WindowItems&): the for loop from i, count being
\* msg.GetCount().  The outcomes of the loop: the inventories it leaves, and
\* whether the process died on the way; a read of slot_data past its end
\* either kills the process or goes on with the Slot it came by.
RECURSIVE WindowItemsLoop(_, _, _, _, _)
\* A loop that installs item i at slot i + 1.
WindowItemsLoopOffByOne(inv, window_id, count, slot_data, i) ==
    IF i < count
    THEN (IF InSlotData(slot_data, i) THEN {} ELSE {[inventories |-> inv, died |-> TRUE]})
         \cup UNION {WindowItemsLoop(SetSlot(inv, window_id, ToShort(i + 1), slot),
                                     window_id, count, slot_data, i + 1) :
                        slot \in SlotDataAt(slot_data, i)}
    ELSE {[inventories |-> inv, died |-> FALSE]}

WindowItemsLoop(inv, window_id, count, slot_data, i) ==
    IF i < count
    THEN (IF InSlotData(slot_data, i) THEN {} ELSE {[inventories |-> inv, died |-> TRUE]})
         \cup UNION {WindowItemsLoop(SetSlot(inv, window_id, ToShort(i), slot),
                                     window_id, count, slot_data, i + 1) :
                        slot \in SlotDataAt(slot_data, i)}
    ELSE {[inventories |-> inv, died |-> FALSE]}

\* InventoryManager::Handle(WindowItems&): its outcomes, each the manager it
\* leaves and whether the process died on the way
HandleWindowItems(m, window_id, count, slot_data) ==
    {[manager |-> [m EXCEPT !.inventories = r.inventories], died |-> r.died] :
        r \in WindowItemsLoop(m.inventories, window_id, count, slot_data, 0)}

\* InventoryManager::Handle(OpenWindow&)
HandleOpenWindow(m, window_id) ==
    [m EXCEPT !.inventories = AddInventory(@, ToShort(window_id))]

\* InventoryManager::Handle(HeldItemChangeClientbound&)
HandleHeldItemChange(m, slot) == SetHotbarSelected(m, ToShort(slot))

\* InventoryManager::GetHotbarSelected: Slot() without a player inventory;
\* with one, control leaves the function without a return statement, and the
\* caller gets whatever the build leaves there, or no return at all.
GetHotbarSelected(m) ==
    LET inventory == GetPlayerInventory(m.inventories)
        unused == InventoryGetSlot(inventory.slots,
                                   INVENTORY_HOTBAR_START + m.index_hotbar_selected)
    IN  IF ~inventory.present
        THEN {EmptySlot}
        ELSE {EmptySlot, Fault} \cup Items

\* one completed call on the manager
Call(op, window_id, slot, data, items) ==
    [op |-> op, window_id |-> window_id, slot |-> slot, data |-> data, items |-> items,
     count |-> 0]
NoCall == Call("none", 0, 0, EmptySlot, <<>>)

\* WindowItems{window_id: i16, count: i32, slot_data: [Slot]}: count and
\* slot_data are two fields of the message, and nothing ties one to the other
WindowItemsMsg(window_id, count, slot_data) ==
    [Call("WindowItems", window_id, 0, EmptySlot, slot_data) EXCEPT !.count = count]

\* no call made on the manager yet
InvIdle ==
    /\ inventories = NewInventoryManager.inventories
    /\ cursor = NewInventoryManager.cursor
    /\ index_hotbar_selected = NewInventoryManager.index_hotbar_selected
    /\ inventory_manager_mutex = 0
    /\ threads = <<>>
    /\ handled = 0
    /\ lastcall = NoCall
    /\ before = NewInventoryManager
    /\ ret = EmptySlot

\* no packet written yet
CodecIdle ==
    /\ packet = <<>>
    /\ wire = <<>>
    /\ decoded = <<>>

----------------------------------------------------------------------------
(* The builder.  Builder b holds root; every sequence(), selector(),       *)
(* inverter(), succeeder() and repeater(n) returns a nested builder on the *)
(* node it made, end() returns to the enclosing one.  bstack is the chain  *)
(* of nested builders in use, innermost last; with bstack empty the calls  *)
(* go to b itself.  b.build() may be called at any time.                   *)

Frame(k, x) == [kind |-> k, node |-> x]
Top == bstack[Len(bstack)]
AtRoot == bstack = <<>>
InComposite == bstack # <<>> /\ Top.kind = "composite"
InDecorator == bstack # <<>> /\ Top.kind = "decorator"
IsTree(h, x) == x # Null /\ h[x].kind = "BehaviourTree"
\* The places that hold a tree put there by tree(arg).
TreeUses(h, br) ==
    Cardinality({<<i, q>> \in (DOMAIN h) \X (1..MaxChildren) :
                    q <= Len(h[i].children) /\ IsTree(h, h[i].children[q])})
    + Cardinality({i \in DOMAIN h : h[i].kind # "BehaviourTree" /\ IsTree(h, h[i].child)})
    + (IF IsTree(h, br) THEN 1 ELSE 0)
CanUseTree == TreeUses(heap, broot) < MaxTreeUses
CanAlloc == Cardinality({i \in DOMAIN heap : heap[i].kind # "BehaviourTree"}) < MaxNodes
Op(o, on, t, x) == [op |-> o, on |-> on, target |-> t, added |-> x]

Init ==
    /\ heap = <<>>
    /\ broot = Null
    /\ bstack = <<>>
    /\ built = {}
    /\ lastop = NoOp
    /\ last = NoTick
    /\ prev = NoTick
    /\ hist = <<>>
    /\ InvIdle /\ CodecIdle

\* Builder::leaf
BuilderLeaf ==
    /\ Alive /\ AtRoot /\ CanAlloc
    /\ heap' = Alloc(heap, NewLeaf)
    /\ broot' = Fresh(heap)
    /\ lastop' = Op("leaf", "root", Null, Fresh(heap))
    /\ last' = NoTick
    /\ UNCHANGED <<invvars, codecvars, bstack, built, prev, hist>>

\* Builder::tree
BuilderTree ==
    /\ Alive /\ AtRoot /\ CanUseTree
    /\ \E arg \in built :
          /\ broot' = arg
          /\ lastop' = Op("tree", "root", Null, arg)
    /\ last' = NoTick
    /\ UNCHANGED <<invvars, codecvars, heap, bstack, built, prev, hist>>

\* Builder::sequence, Builder::selector
BuilderComposite ==
    /\ Alive /\ AtRoot /\ CanAlloc
    /\ \E k \in CompositeKinds :
          /\ heap' = Alloc(heap, NewComposite(k))
          /\ lastop' = Op(k, "root", Null, Fresh(heap))
    /\ broot' = Fresh(heap)
    /\ bstack' = <<Frame("composite", Fresh(heap))>>
    /\ last' = NoTick
    /\ UNCHANGED <<invvars, codecvars, built, prev, hist>>

\* Builder::inverter, Builder::succeeder: make_shared<Inverter<Context>>(n)
\* with n declared nowhere and no constructor taking an argument; a program
\* that calls either does not compile.
BuilderDecorator ==
    /\ Alive /\ AtRoot /\ CanAlloc
    /\ \E k \in {"Inverter", "Succeeder"} :
          lastop' = Op(k, "root", Null, IllFormed)
    /\ last' = NoTick
    /\ UNCHANGED <<invvars, codecvars, heap, broot, bstack, built, prev, hist>>

\* Builder::decorator<Inverter<Context>>(), Builder::decorator<Succeeder<Context>>()
BuilderDecoratorType ==
    /\ Alive /\ AtRoot /\ CanAlloc
    /\ \E k \in {"Inverter", "Succeeder"} :
          /\ heap' = Alloc(heap, NewDecorator(k))
          /\ lastop' = Op("decorator", "root", Null, Fresh(heap))
    /\ broot' = Fresh(heap)
    /\ bstack' = <<Frame("decorator", Fresh(heap))>>
    /\ last' = NoTick
    /\ UNCHANGED <<invvars, codecvars, built, prev, hist>>

\* Builder::repeater: make_shared<Repeater<Context>>(n) needs Repeater's
\* constructor
BuilderRepeater ==
    /\ Alive /\ AtRoot /\ CanAlloc
    /\ \/ /\ \E n \in 0..MaxN, g \in BuilderStorage :
                heap' = Alloc(heap, NewRepeater(SizeOf(n), g))
          /\ broot' = Fresh(heap)
          /\ bstack' = <<Frame("decorator", Fresh(heap))>>
          /\ lastop' = Op("Repeater", "root", Null, Fresh(heap))
       \/ /\ lastop' = Op("Repeater", "root", Null, IllFormed)
          /\ UNCHANGED <<heap, broot, bstack>>
    /\ last' = NoTick
    /\ UNCHANGED <<invvars, codecvars, built, prev, hist>>

\* Builder::build
BuilderBuild ==
    /\ Alive /\ Cardinality(built) < MaxTrees
    /\ heap' = SetRoot(Alloc(heap, NewBehaviourTree), Fresh(heap), broot)
    /\ built' = built \cup {Fresh(heap)}
    /\ lastop' = Op("build", "root", Null, Fresh(heap))
    /\ last' = NoTick
    /\ UNCHANGED <<invvars, codecvars, broot, bstack, prev, hist>>

\* CompositeBuilder::leaf
CompositeBuilderLeaf ==
    /\ Alive /\ InComposite /\ CanAlloc
    /\ heap' = AddChild(Alloc(heap, NewLeaf), Top.node, Fresh(heap))
    /\ lastop' = Op("leaf", "composite", Top.node, Fresh(heap))
    /\ last' = NoTick
    /\ UNCHANGED <<invvars, codecvars, broot, bstack, built, prev, hist>>

\* CompositeBuilder::tree
CompositeBuilderTree ==
    /\ Alive /\ InComposite /\ CanUseTree
    /\ Len(heap[Top.node].children) < MaxChildren
    /\ \E arg \in built :
          /\ heap' = AddChild(heap, Top.node, arg)
          /\ lastop' = Op("tree", "composite", Top.node, arg)
    /\ last' = NoTick
    /\ UNCHANGED <<invvars, codecvars, broot, bstack, built, prev, hist>>

\* CompositeBuilder::sequence, CompositeBuilder::selector
CompositeBuilderComposite ==
    /\ Alive /\ InComposite /\ CanAlloc
    /\ \E k \in CompositeKinds :
          /\ heap' = AddChild(Alloc(heap, NewComposite(k)), Top.node, Fresh(heap))
          /\ lastop' = Op(k, "composite", Top.node, Fresh(heap))
    /\ bstack' = Append(bstack, Frame("composite", Fresh(heap)))
    /\ last' = NoTick
    /\ UNCHANGED <<invvars, codecvars, broot, built, prev, hist>>

\* CompositeBuilder::inverter, CompositeBuilder::succeeder
CompositeBuilderDecorator ==
    /\ Alive /\ InComposite /\ CanAlloc
    /\ \E k \in {"Inverter", "Succeeder"} :
          /\ heap' = AddChild(Alloc(heap, NewDecorator(k)), Top.node, Fresh(heap))
          /\ lastop' = Op(k, "composite", Top.node, Fresh(heap))
    /\ bstack' = Append(bstack, Frame("decorator", Fresh(heap)))
    /\ last' = NoTick
    /\ UNCHANGED <<invvars, codecvars, broot, built, prev, hist>>

\* CompositeBuilder::repeater
CompositeBuilderRepeater ==
    /\ Alive /\ InComposite /\ CanAlloc
    /\ \/ /\ \E n \in 0..MaxN, g \in BuilderStorage :
                heap' = AddChild(Alloc(heap, NewRepeater(SizeOf(n), g)), Top.node, Fresh(heap))
          /\ lastop' = Op("Repeater", "composite", Top.node, Fresh(heap))
          /\ bstack' = Append(bstack, Frame("decorator", Fresh(heap)))
       \/ /\ lastop' = Op("Repeater", "composite", Top.node, IllFormed)
          /\ UNCHANGED <<heap, bstack>>
    /\ last' = NoTick
    /\ UNCHANGED <<invvars, codecvars, broot, built, prev, hist>>

\* CompositeBuilder::end
CompositeBuilderEnd ==
    /\ Alive /\ InComposite
    /\ bstack' = SubSeq(bstack, 1, Len(bstack) - 1)
    /\ lastop' = Op("end", "composite", Top.node, Null)
    /\ last' = NoTick
    /\ UNCHANGED <<invvars, codecvars, heap, broot, built, prev, hist>>

\* DecoratorBuilder::leaf
DecoratorBuilderLeaf ==
    /\ Alive /\ InDecorator /\ CanAlloc
    /\ heap' = SetChild(Alloc(heap, NewLeaf), Top.node, Fresh(heap))
    /\ lastop' = Op("leaf", "decorator", Top.node, Fresh(heap))
    /\ last' = NoTick
    /\ UNCHANGED <<invvars, codecvars, broot, bstack, built, prev, hist>>

\* DecoratorBuilder::tree
DecoratorBuilderTree ==
    /\ Alive /\ InDecorator /\ CanUseTree
    /\ \E arg \in built :
          /\ heap' = SetChild(heap, Top.node, arg)
          /\ lastop' = Op("tree", "decorator", Top.node, arg)
    /\ last' = NoTick
    /\ UNCHANGED <<invvars, codecvars, broot, bstack, built, prev, hist>>

\* The node-making calls of DecoratorBuilder all do node->AddChild(child) with
\* node a Decorator<Context>*, and Decorator declares SetChild only: a program
\* that makes one of them does not compile.

\* DecoratorBuilder::sequence, DecoratorBuilder::selector, DecoratorBuilder::composite
DecoratorBuilderComposite ==
    /\ Alive /\ InDecorator /\ CanAlloc
    /\ \E k \in CompositeKinds :
          lastop' = Op(k, "decorator", Top.node, IllFormed)
    /\ last' = NoTick
    /\ UNCHANGED <<invvars, codecvars, heap, broot, bstack, built, prev, hist>>

\* DecoratorBuilder::inverter, DecoratorBuilder::succeeder, DecoratorBuilder::decorator
DecoratorBuilderDecorator ==
    /\ Alive /\ InDecorator /\ CanAlloc
    /\ \E k \in {"Inverter", "Succeeder"} :
          lastop' = Op(k, "decorator", Top.node, IllFormed)
    /\ last' = NoTick
    /\ UNCHANGED <<invvars, codecvars, heap, broot, bstack, built, prev, hist>>

\* DecoratorBuilder::repeater
DecoratorBuilderRepeater ==
    /\ Alive /\ InDecorator /\ CanAlloc
    /\ lastop' = Op("Repeater", "decorator", Top.node, IllFormed)
    /\ last' = NoTick
    /\ UNCHANGED <<invvars, codecvars, heap, broot, bstack, built, prev, hist>>

\* DecoratorBuilder::end
DecoratorBuilderEnd ==
    /\ Alive /\ InDecorator
    /\ bstack' = SubSeq(bstack, 1, Len(bstack) - 1)
    /\ lastop' = Op("end", "decorator", Top.node, Null)
    /\ last' = NoTick
    /\ UNCHANGED <<invvars, codecvars, heap, broot, built, prev, hist>>

\* tree->Tick(context) on a tree returned by build()
TreeTick ==
    /\ Alive
    /\ \E t \in built, res \in [Leaves(heap) -> Status], ub \in Undefined(heap) :
          LET r == OuterTick(t, heap, res, ub)
          IN  /\ WithinCount(Counted(hist, heap, r))
              /\ heap' = r.heap
              /\ last' = [TickRecord(t, heap, res, r) EXCEPT !.res = <<>>]
              /\ lastop' = Op("Tick", "node", t, Null)
              /\ hist' = Counted(hist, heap, r)
    /\ UNCHANGED <<invvars, codecvars, broot, bstack, built, prev>>

Next ==
    \/ BuilderLeaf \/ BuilderTree \/ BuilderComposite \/ BuilderDecorator
    \/ BuilderDecoratorType \/ BuilderRepeater \/ BuilderBuild
    \/ CompositeBuilderLeaf \/ CompositeBuilderTree \/ CompositeBuilderComposite
    \/ CompositeBuilderDecorator \/ CompositeBuilderRepeater \/ CompositeBuilderEnd
    \/ DecoratorBuilderLeaf \/ DecoratorBuilderTree \/ DecoratorBuilderComposite
    \/ DecoratorBuilderDecorator \/ DecoratorBuilderRepeater \/ DecoratorBuilderEnd
    \/ TreeTick

Spec == Init /\ [][Next]_vars

\* The nodes reachable from the nodes in S through children, child and root.
Successors(h, i) ==
    {h[i].children[q] : q \in 1..Len(h[i].children)}
    \cup (IF h[i].child = Null THEN {} ELSE {h[i].child})
RECURSIVE Reach(_, _)
Reach(h, S) ==
    LET T == S \cup UNION {Successors(h, i) : i \in S}
    IN  IF T = S THEN S ELSE Reach(h, T)

IsDecorator(h, i) == h[i].kind \in DecoratorKinds

\* C8: a tick never faults, also in a tree holding an Inverter, Succeeder or
\* Repeater whose child was never set: the tick of such a decorator returns
\* Failure.
C8_UnsetChildYieldsFailure ==
    \A q \in 1..Len(last.trace) :
        (IsDecorator(heap, last.trace[q].node) /\ heap[last.trace[q].node].child = Null)
            => last.trace[q].status = "Failure"

\* C9: every decorator reachable from the root of a tree that build() has
\* just returned has its child set.
C9_BuiltDecoratorsHaveChild ==
    lastop.op = "build" =>
        \A d \in Reach(heap, {lastop.added}) :
            IsDecorator(heap, d) => heap[d].child # Null

\* C10: after any child-adding call on a decorator-builder (leaf, tree,
\* sequence, selector, composite, inverter, succeeder, repeater, decorator)
\* the decorator's child is the node that call added.
C10_DecoratorBuilderSetsChild ==
    (lastop.on = "decorator" /\ lastop.op # "end") =>
        /\ lastop.added # IllFormed
        /\ heap[lastop.target].child = lastop.added

\* C11: after any builder calls, tree(subtree) with a tree that build()
\* returned earlier and calls on builders kept after build() included, no node
\* reachable from a built tree is its own ancestor.
C11_BuilderNeverMakesCycle ==
    \A t \in built :
        \A x \in Reach(heap, {t}) : x \notin Reach(heap, Successors(heap, x))

----------------------------------------------------------------------------
(* SpecTree: BehaviourTree objects made and rooted directly, over one leaf *)
(* and over each other, and ticked.                                        *)

Trees(h) == {i \in DOMAIN h : h[i].kind = "BehaviourTree"}

\* auto leaf = make_shared<Leaf>(f);
TInit ==
    /\ heap = <<NewLeaf>>
    /\ broot = Null
    /\ bstack = <<>>
    /\ built = {}
    /\ lastop = NoOp
    /\ last = NoTick
    /\ prev = NoTick
    /\ hist = <<>>
    /\ InvIdle /\ CodecIdle

\* auto t = make_shared<BehaviourTree>();
TNewTree ==
    /\ Alive
    /\ Cardinality(Trees(heap)) < MaxTrees
    /\ heap' = Alloc(heap, NewBehaviourTree)
    /\ lastop' = Op("BehaviourTree", "node", Null, Fresh(heap))
    /\ last' = NoTick
    /\ UNCHANGED <<invvars, codecvars, broot, bstack, built, prev, hist>>

\* t->SetRoot(x);
TSetRoot ==
    /\ Alive
    /\ \E t \in Trees(heap), x \in DOMAIN heap :
          /\ heap' = SetRoot(heap, t, x)
          /\ lastop' = Op("SetRoot", "node", t, x)
    /\ last' = NoTick
    /\ UNCHANGED <<invvars, codecvars, broot, bstack, built, prev, hist>>

\* t->Tick(context);
TTick ==
    /\ Alive
    /\ \E t \in Trees(heap), res \in [Leaves(heap) -> Status], ub \in Undefined(heap) :
          LET r == OuterTick(t, heap, res, ub)
          IN  /\ heap' = r.heap
              /\ last' = TickRecord(t, heap, res, r)
              /\ lastop' = Op("Tick", "node", t, Null)
    /\ UNCHANGED <<invvars, codecvars, broot, bstack, built, prev, hist>>

TNext == TNewTree \/ TSetRoot \/ TTick

SpecTree == TInit /\ [][TNext]_vars

\* C7: a BehaviourTree whose root was never set returns Failure from Tick;
\* one whose root is set returns what the one tick of its root, made just
\* before it returns, returned -- for the tree ticked by the scheduler and for
\* every tree ticked beneath it.
C7_TreeForwardsRoot ==
    /\ (last.root # Null /\ heap[last.root].child = Null) =>
           last.trace = <<[node |-> last.root, status |-> "Failure"]>>
    /\ \A q \in 1..Len(last.trace) :
           LET e == last.trace[q]
           IN  (heap[e.node].kind = "BehaviourTree" /\ e.status # Fault) =>
                   IF heap[e.node].child = Null
                   THEN e.status = "Failure"
                   ELSE /\ q > 1
                        /\ last.trace[q - 1].node = heap[e.node].child
                        /\ last.trace[q - 1].status = e.status

\* A tree whose root is a tree whose root is the leaf, ticked while the leaf
\* is Running.
C7_Witness ==
    /\ Len(last.trace) = 3
    /\ heap[last.trace[1].node].kind = "Leaf"
    /\ heap[last.trace[2].node].kind = "BehaviourTree"
    /\ last.trace[3].node = last.root
    /\ heap[last.root].child = last.trace[2].node
    /\ last.status = "Running"

----------------------------------------------------------------------------
(* SpecComposite: one Sequence or Selector, given leaf children through    *)
(* Composite::AddChild and ticked by the scheduler.                        *)

CInit ==
    /\ \E k \in CompositeKinds : heap = <<NewComposite(k)>>
    /\ broot = Null
    /\ bstack = <<>>
    /\ built = {}
    /\ lastop = NoOp
    /\ last = NoTick
    /\ prev = NoTick
    /\ hist = <<>>
    /\ InvIdle /\ CodecIdle

\* auto child = make_shared<Leaf>(f); node.AddChild(child);
CAddChild ==
    /\ Alive
    /\ Len(heap[1].children) < MaxChildren
    /\ LET x == Fresh(heap)
       IN  /\ heap' = AddChild(Alloc(heap, NewLeaf), 1, x)
           /\ lastop' = [op |-> "AddChild", on |-> "node", target |-> 1, added |-> x]
    /\ UNCHANGED <<invvars, codecvars, broot, bstack, built, last, prev, hist>>

\* node.Tick(context)
CTick ==
    /\ Alive
    /\ \E res \in [Leaves(heap) -> Status], ub \in Undefined(heap) :
          LET r == OuterTick(1, heap, res, ub)
          IN  /\ heap' = r.heap
              /\ last' = TickRecord(1, heap, res, r)
              /\ prev' = last
    /\ lastop' = [op |-> "Tick", on |-> "node", target |-> 1, added |-> Null]
    /\ UNCHANGED <<invvars, codecvars, broot, bstack, built, hist>>

CNext == CAddChild \/ CTick

SpecComposite == CInit /\ [][CNext]_vars

\* What the child at position p returned in the tick recorded as rec.
ChildStatus(rec, p) == rec.res[heap[1].children[p]]

\* The first position from the cursor whose child did not return s
\* (len + 1 when every one of them returned s).
FirstNot(rec, s) ==
    LET stop == {p \in rec.it0..rec.len : ChildStatus(rec, p) # s}
    IN  IF stop = {} THEN rec.len + 1 ELSE CHOOSE p \in stop : \A q \in stop : p <= q

\* The child calls of a recorded tick of the composite: everything but its own return.
ChildCalls(rec) == SubSeq(rec.trace, 1, Len(rec.trace) - 1)

\* Children it0..upto ticked in order, once each, with the statuses they returned.
TickedInOrder(rec, upto) ==
    ChildCalls(rec) = [q \in 1..(upto - rec.it0 + 1) |->
                         [node |-> heap[1].children[rec.it0 + q - 1],
                          status |-> ChildStatus(rec, rec.it0 + q - 1)]]

\* A recorded tick of the composite that started from a cursor position.
CompositeTicked(rec, k) == rec.root = 1 /\ heap[1].kind = k /\ rec.it0 >= 1

\* C1: a tick of a Sequence from cursor position i ticks children i, i+1, ...
\* in order, once each, up to the first one that does not return Success; it
\* returns Failure and puts the cursor on the first child if that child
\* returned Failure, returns Running and leaves the cursor on that child if it
\* returned Running, and returns Success with the cursor on the first child
\* if every child from i to k returned Success.
C1_SequenceTick ==
    CompositeTicked(last, "Sequence") =>
        LET j == FirstNot(last, "Success")
        IN  IF j = last.len + 1
            THEN /\ TickedInOrder(last, last.len)
                 /\ last.status = "Success"
                 /\ last.it1 = 1
            ELSE /\ TickedInOrder(last, j)
                 /\ last.status = ChildStatus(last, j)
                 /\ last.it1 = (IF ChildStatus(last, j) = "Running" THEN j ELSE 1)

\* A Sequence of three resumed at its second child, whose third child fails.
C1_Witness ==
    /\ CompositeTicked(last, "Sequence")
    /\ last.len = 3 /\ last.it0 = 2
    /\ ChildStatus(last, 2) = "Success" /\ ChildStatus(last, 3) = "Failure"
    /\ last.status = "Failure"

\* C2: a tick of a Selector from cursor position i ticks children i, i+1, ...
\* in order, once each, up to the first one that does not return Failure; it
\* returns Success and puts the cursor on the first child if that child
\* returned Success, returns Running and leaves the cursor on that child if it
\* returned Running, and returns Failure with the cursor on the first child
\* if every child from i to k returned Failure.
C2_SelectorTick ==
    CompositeTicked(last, "Selector") =>
        LET j == FirstNot(last, "Failure")
        IN  IF j = last.len + 1
            THEN /\ TickedInOrder(last, last.len)
                 /\ last.status = "Failure"
                 /\ last.it1 = 1
            ELSE /\ TickedInOrder(last, j)
                 /\ last.status = ChildStatus(last, j)
                 /\ last.it1 = (IF ChildStatus(last, j) = "Running" THEN j ELSE 1)

\* A Selector of three resumed at its second child, all of whose remaining
\* children fail.
C2_Witness ==
    /\ CompositeTicked(last, "Selector")
    /\ last.len = 3 /\ last.it0 = 2
    /\ ChildStatus(last, 2) = "Failure" /\ ChildStatus(last, 3) = "Failure"
    /\ last.status = "Failure" /\ last.it1 = 1

\* How many times node x was ticked in a recorded tick.
TimesTicked(rec, x) == Cardinality({q \in 1..Len(rec.trace) : rec.trace[q].node = x})

\* Two recorded ticks of the composite in a row, its child list untouched
\* between them (AddChild only ever lengthens the list).
Consecutive(a, b) == a.root = 1 /\ b.root = 1 /\ a.len = b.len

\* The position of the child whose Running ended the recorded tick.
RunningChild(rec) == FirstNot(rec, IF heap[1].kind = "Sequence" THEN "Success" ELSE "Failure")

\* C3: when a tick of a Sequence or Selector returns Running because child j
\* returned Running, the next tick of it starts by ticking child j, ticks no
\* child before j, and child j is ticked exactly once in each of the two
\* ticks; a Sequence [Success, Running then Success, Success] returns Running
\* and then Success.
C3_ResumeCursor ==
    /\ (Consecutive(prev, last) /\ prev.status = "Running") =>
          LET j == RunningChild(prev)
              x == heap[1].children[j]
          IN  /\ ChildStatus(prev, j) = "Running"
              /\ last.trace[1].node = x
              /\ \A p \in 1..(j - 1) : TimesTicked(last, heap[1].children[p]) = 0
              /\ TimesTicked(prev, x) = 1
              /\ TimesTicked(last, x) = 1
    /\ (/\ Consecutive(prev, last) /\ heap[1].kind = "Sequence"
        /\ prev.len = 3 /\ prev.it0 = 1
        /\ <<ChildStatus(prev, 1), ChildStatus(prev, 2), ChildStatus(prev, 3)>>
               = <<"Success", "Running", "Success">>
        /\ <<ChildStatus(last, 2), ChildStatus(last, 3)>> = <<"Success", "Success">>)
          => /\ prev.status = "Running"
             /\ last.status = "Success"
             /\ TimesTicked(prev, heap[1].children[2]) = 1
             /\ TimesTicked(last, heap[1].children[2]) = 1
             /\ TimesTicked(last, heap[1].children[1]) = 0

\* The scenario of the claim: Running at T on the second child, Success at T+1.
C3_Witness ==
    /\ Consecutive(prev, last) /\ heap[1].kind = "Sequence"
    /\ prev.len = 3 /\ prev.it0 = 1
    /\ <<ChildStatus(prev, 1), ChildStatus(prev, 2), ChildStatus(prev, 3)>>
           = <<"Success", "Running", "Success">>
    /\ <<ChildStatus(last, 2), ChildStatus(last, 3)>> = <<"Success", "Success">>
    /\ prev.status = "Running" /\ last.status = "Success"

\* The cursor of composite c is a position of its child list or the position
\* past its last child (children.end()).
CursorValid(h, c) == h[c].it \in 1..(Len(h[c].children) + 1)

\* C21: after any sequence of AddChild and Tick on a Sequence or Selector, a
\* composite that never received a child included, the cursor is a valid
\* position of the child list or its end sentinel, and right after every
\* AddChild it is at the first child, also when the AddChild comes between a
\* tick that returned Running and the next tick.
C21_CursorInvariant ==
    /\ CursorValid(heap, 1)
    /\ lastop.op = "AddChild" => heap[1].it = 1

\* What holds of the cursor once the composite has been given a child.
CursorValidOnceAssigned ==
    /\ heap[1].children # <<>> => CursorValid(heap, 1)
    /\ lastop.op = "AddChild" => heap[1].it = 1

\* An AddChild between a tick that left the cursor on a Running second child
\* and the next tick.
AddChildWhileRunning ==
    /\ lastop.op = "AddChild"
    /\ last.root = 1 /\ last.status = "Running" /\ last.it1 = 2
    /\ heap[1].it = 1

----------------------------------------------------------------------------
(* SpecRepeater: Repeater(n) constructed over one leaf and ticked.         *)

\* auto r = make_shared<Repeater>(n); r->SetChild(make_shared<Leaf>(f)); the
\* program as written has no build, and nothing is made
RInit ==
    /\ \/ /\ \E n \in 0..MaxN, g \in StorageValues :
                heap = SetChild(<<NewRepeater(SizeOf(n), g), NewLeaf>>, 1, 2)
          /\ lastop = NoOp
       \/ /\ heap = <<>>
          /\ lastop = Op("Repeater", "node", Null, IllFormed)
    /\ broot = Null
    /\ bstack = <<>>
    /\ built = {}
    /\ last = NoTick
    /\ prev = NoTick
    /\ hist = <<>>
    /\ InvIdle /\ CodecIdle

\* r->Tick(context), the leaf returning s
RTick ==
    /\ Alive
    /\ Len(hist) < MaxTicks
    /\ \E s \in Status, ub \in Undefined(heap) :
          LET res == [x \in {2} |-> s]
              r == OuterTick(1, heap, res, ub)
          IN  /\ heap' = r.heap
              /\ last' = TickRecord(1, heap, res, r)
              /\ prev' = last
              /\ hist' = Append(hist, [child |-> s, status |-> r.status])
    /\ lastop' = [op |-> "Tick", on |-> "node", target |-> 1, added |-> Null]
    /\ UNCHANGED <<invvars, codecvars, broot, bstack, built>>

RNext == RTick

SpecRepeater == RInit /\ [][RNext]_vars

\* The child has returned Failure on every tick since construction.
AlwaysFailed == \A q \in 1..Len(hist) : hist[q].child = "Failure"

\* Repeater(n) as a number (0 where no Repeater was made)
RepeaterN == IF heap = <<>> THEN 0 ELSE heap[1].n[4]

\* C4: Repeater(n), n > 0, over a child that always fails, ticked from
\* construction, returns Running on ticks 1..n-1, Failure on tick n, and then
\* the same pattern again (Failure exactly on the ticks that are multiples of n).
C4_RepeaterPattern ==
    (RepeaterN > 0 /\ AlwaysFailed) =>
        \A q \in 1..Len(hist) :
            hist[q].status = (IF q % RepeaterN = 0 THEN "Failure" ELSE "Running")

\* C5: Repeater(0) never returns Failure: whenever its child returns Failure
\* it returns Running.
C5_RepeaterZeroNeverFails ==
    RepeaterN = 0 =>
        \A q \in 1..Len(hist) : hist[q].child = "Failure" => hist[q].status = "Running"

\* C23: for Repeater(n) with n > 0, from construction on and after every
\* Tick, whatever the child returns, Running between failures included, the
\* counter satisfies 0 <= counter < n.
C23_CounterInvariant ==
    RepeaterN > 0 => \E k \in 0..(RepeaterN - 1) : heap[1].counter = SizeOf(k)

----------------------------------------------------------------------------
(* SpecDual: a Selector over leaves c1..cn (node 1) beside an Inverter     *)
(* (node 2) over a Sequence (node 3) over Inverter(c1)..Inverter(cn), both *)
(* ticked with the same leaf results.                                      *)

DInit ==
    /\ heap = SetChild(<<NewComposite("Selector"), NewDecorator("Inverter"),
                          NewComposite("Sequence")>>, 2, 3)
    /\ broot = Null
    /\ bstack = <<>>
    /\ built = {}
    /\ lastop = NoOp
    /\ last = NoTick
    /\ prev = NoTick
    /\ hist = <<>>
    /\ InvIdle /\ CodecIdle

\* c = make_shared<Leaf>(f); selector.AddChild(c);
\* i = make_shared<Inverter>(); i->SetChild(c); sequence.AddChild(i);
DAddChild ==
    /\ Alive
    /\ Len(heap[1].children) < MaxChildren
    /\ LET x == Fresh(heap)
           h1 == AddChild(Alloc(heap, NewLeaf), 1, x)
           y == Fresh(h1)
           h2 == SetChild(Alloc(h1, NewDecorator("Inverter")), y, x)
       IN  /\ heap' = AddChild(h2, 3, y)
           /\ lastop' = [op |-> "AddChild", on |-> "node", target |-> 1, added |-> x]
    /\ UNCHANGED <<invvars, codecvars, broot, bstack, built, last, prev, hist>>

\* selector.Tick(context); inverter.Tick(context);
DTick ==
    /\ Alive
    /\ \E res \in [Leaves(heap) -> Status], ub \in Undefined(heap) :
          LET r1 == OuterTick(1, heap, res, ub)
              r2 == OuterTick(2, r1.heap, res, ub)
          IN  IF r1.status = Fault
              THEN /\ heap' = r1.heap
                   /\ last' = TickRecord(1, heap, res, r1)
                   /\ prev' = last
              ELSE /\ heap' = r2.heap
                   /\ last' = TickRecord(2, r1.heap, res, r2)
                   /\ prev' = TickRecord(1, heap, res, r1)
    /\ lastop' = [op |-> "Tick", on |-> "node", target |-> 1, added |-> Null]
    /\ UNCHANGED <<invvars, codecvars, broot, bstack, built, hist>>

DNext == DAddChild \/ DTick

SpecDual == DInit /\ [][DNext]_vars

\* The leaves ticked in a recorded tick, in order, with what they returned.
IsLeafCall(e) == heap[e.node].kind = "Leaf"
LeafCalls(rec) == SelectSeq(rec.trace, IsLeafCall)

\* C6: on every tick, whatever the children returned on this and the earlier
\* ticks, the Selector over [c1..cn] and the Inverter over a Sequence over
\* [Inverter(c1)..Inverter(cn)] return the same status and tick the same
\* children in the same order.
C6_SelectorDuality ==
    (prev.root = 1 /\ last.root = 2) =>
        /\ last.status = prev.status
        /\ LeafCalls(last) = LeafCalls(prev)

\* Both were resumed at their second child, which failed, and went on to the third.
C6_Witness ==
    /\ prev.root = 1 /\ last.root = 2
    /\ prev.len = 3 /\ prev.it0 = 2
    /\ Len(LeafCalls(prev)) = 2 /\ Len(LeafCalls(last)) = 2
    /\ prev.status = "Running" /\ last.status = "Running"

----------------------------------------------------------------------------
(* SpecFresh: trees of stock nodes put together with AddChild, SetChild    *)
(* and SetRoot, every node under one parent, node 1 on top, then ticked.   *)

\* Sequence[Leaf, Repeater(2)[Leaf]]
GuardedRetry(g) ==
    LET h == <<NewComposite("Sequence"), NewLeaf, NewRepeater(SizeOf(2), g), NewLeaf>>
    IN  AddChild(AddChild(SetChild(h, 3, 4), 1, 2), 1, 3)

\* Selector[Sequence[Leaf, Leaf], Inverter[Leaf]]
Fallback ==
    LET h == <<NewComposite("Selector"), NewComposite("Sequence"), NewLeaf, NewLeaf,
               NewDecorator("Inverter"), NewLeaf>>
    IN  AddChild(AddChild(AddChild(AddChild(SetChild(h, 5, 6), 2, 3), 2, 4), 1, 2), 1, 5)

\* BehaviourTree[Sequence[Succeeder[Leaf], Selector[Leaf, Leaf]]]
Nested ==
    LET h == <<NewBehaviourTree, NewComposite("Sequence"), NewDecorator("Succeeder"),
               NewLeaf, NewComposite("Selector"), NewLeaf, NewLeaf>>
    IN  SetRoot(AddChild(AddChild(AddChild(AddChild(SetChild(h, 3, 4), 5, 6), 5, 7),
                                  2, 3), 2, 5), 1, 2)

\* Repeater(2)[Sequence[Leaf, Leaf]]
Retry(g) ==
    LET h == <<NewRepeater(SizeOf(2), g), NewComposite("Sequence"), NewLeaf, NewLeaf>>
    IN  SetChild(AddChild(AddChild(h, 2, 3), 2, 4), 1, 2)

StockTrees ==
    {Fallback, Nested} \cup UNION {{GuardedRetry(g), Retry(g)} : g \in StorageValues}

\* one of the stock trees; of a program that makes a Repeater, as written,
\* there is no build, and nothing is made
FInit ==
    /\ \/ heap \in StockTrees /\ lastop = NoOp
       \/ heap = <<>> /\ lastop = Op("Repeater", "node", Null, IllFormed)
    /\ broot = Null
    /\ bstack = <<>>
    /\ built = {}
    /\ last = NoTick
    /\ prev = NoTick
    /\ hist = <<>>
    /\ InvIdle /\ CodecIdle

\* root->Tick(context)
FTick ==
    /\ Alive
    /\ \E res \in [Leaves(heap) -> Status], ub \in Undefined(heap) :
          LET r == OuterTick(1, heap, res, ub)
          IN  /\ WithinCount(Counted(hist, heap, r))
              /\ heap' = r.heap
              /\ last' = TickRecord(1, heap, res, r)
              /\ hist' = Counted(hist, heap, r)
    /\ lastop' = Op("Tick", "node", 1, Null)
    /\ UNCHANGED <<invvars, codecvars, broot, bstack, built, prev>>

FNext == FTick

SpecFresh == FInit /\ [][FNext]_vars

\* No node is the child of two nodes.
NoSharing(h) ==
    \A x \in DOMAIN h : Cardinality({i \in DOMAIN h : x \in Successors(h, i)}) <= 1

\* The last tick of the root returned Success or Failure.
Completed == last.root = 1 /\ last.status \in {"Success", "Failure"}

\* C22: in a tree of stock nodes in which no node has two parents, whenever a
\* tick of the root returns Success or Failure, every composite has its
\* cursor at its first child and every Repeater has its counter at 0.
C22_FreshAfterCompletion ==
    (NoSharing(heap) /\ Completed) =>
        \A i \in DOMAIN heap :
            /\ heap[i].kind \in CompositeKinds => heap[i].it = 1
            /\ heap[i].kind = "Repeater" => heap[i].counter = SizeZero

\* The same with a Repeater whose counter was never assigned left aside.
FreshWhereAssigned ==
    (NoSharing(heap) /\ Completed) =>
        \A i \in DOMAIN heap :
            /\ heap[i].kind \in CompositeKinds => heap[i].it = 1
            /\ (heap[i].kind = "Repeater" /\ i \in DOMAIN hist) => heap[i].counter = SizeZero

----------------------------------------------------------------------------
(* SpecInventory: one thread handing server messages to the manager and    *)
(* calling EraseInventory and GetHotbarSelected between them.              *)

\* no behaviour tree, builder or tick in this specification
BtIdle ==
    /\ heap = <<>>
    /\ broot = Null
    /\ bstack = <<>>
    /\ built = {}
    /\ lastop = NoOp
    /\ last = NoTick
    /\ prev = NoTick
    /\ hist = <<>>

\* the window ids, slot indices and hotbar indices the messages carry
WindowIds == {-3, -2, -1, 0, 5}
OpenWindowIds == WindowIds \cup {65541}
SlotIndices == {-1, 36}
HotbarIndices == {0, 1}
ItemLists == {<<>>, <<"X">>, <<"Y", "X">>}
Counts == {-1, 0, 1, 2}

\* InventoryManager manager;
IInit == BtIdle /\ InvIdle /\ CodecIdle

\* A std::map left broken by two threads changing it at once (a size() that
\* does not match its nodes, two nodes with one key), or a Slot two threads
\* assigned at once: nothing is known of what a later call makes of it.
Corrupt == "Corrupt"

\* the process has not been stopped by a call that did not return, and the
\* manager's map is a map
InvAlive == ret \notin {Fault, Corrupt}

\* the manager's members become those of m after call c
Becomes(m, c) ==
    /\ inventories' = m.inventories
    /\ cursor' = m.cursor
    /\ index_hotbar_selected' = m.index_hotbar_selected
    /\ handled' = handled + 1
    /\ lastcall' = c
    /\ before' = Manager

\* a message can be handled: the mutex is free and is free again afterwards
CanHandle == InvAlive /\ inventory_manager_mutex = 0 /\ handled < MaxMessages

\* manager.Handle(SetSlot{window_id, slot, slot_data})
IHandleSetSlot ==
    /\ CanHandle
    /\ \E w \in WindowIds, k \in SlotIndices, d \in Items :
          Becomes(HandleSetSlot(Manager, w, k, d), Call("SetSlot", w, k, d, <<>>))
    /\ UNCHANGED <<btvars, codecvars, inventory_manager_mutex, threads, ret>>

\* manager.Handle(WindowItems{window_id, count, slot_data}); a call that
\* returns releases the mutex, one that kills the process leaves what it had
\* stored so far and the mutex taken
IHandleWindowItems ==
    /\ CanHandle
    /\ \E w \in WindowIds, n \in Counts, items \in ItemLists :
          \E r \in HandleWindowItems(Manager, w, n, items) :
              /\ Becomes(r.manager, WindowItemsMsg(w, n, items))
              /\ ret' = IF r.died THEN Fault ELSE ret
              /\ inventory_manager_mutex' = IF r.died THEN 1 ELSE inventory_manager_mutex
    /\ UNCHANGED <<btvars, codecvars, threads>>

\* manager.Handle(OpenWindow{window_id})
IHandleOpenWindow ==
    /\ CanHandle
    /\ \E w \in OpenWindowIds :
          Becomes(HandleOpenWindow(Manager, w), Call("OpenWindow", w, 0, EmptySlot, <<>>))
    /\ UNCHANGED <<btvars, codecvars, inventory_manager_mutex, threads, ret>>

\* manager.Handle(HeldItemChangeClientbound{slot})
IHandleHeldItemChange ==
    /\ CanHandle
    /\ \E k \in HotbarIndices :
          Becomes(HandleHeldItemChange(Manager, k),
                  Call("HeldItemChange", 0, k, EmptySlot, <<>>))
    /\ UNCHANGED <<btvars, codecvars, inventory_manager_mutex, threads, ret>>

\* manager.EraseInventory(window_id)
IEraseInventory ==
    /\ CanHandle
    /\ \E w \in WindowIds :
          Becomes([Manager EXCEPT !.inventories = EraseInventory(@, w)],
                  Call("EraseInventory", w, 0, EmptySlot, <<>>))
    /\ UNCHANGED <<btvars, codecvars, inventory_manager_mutex, threads, ret>>

\* Slot s = manager.GetHotbarSelected();
IGetHotbarSelected ==
    /\ CanHandle
    /\ ret' \in GetHotbarSelected(Manager)
    /\ Becomes(Manager, Call("GetHotbarSelected", 0, 0, EmptySlot, <<>>))
    /\ UNCHANGED <<btvars, codecvars, inventory_manager_mutex, threads>>

INext ==
    \/ IHandleSetSlot
    \/ IHandleWindowItems
    \/ IHandleOpenWindow
    \/ IHandleHeldItemChange
    \/ IEraseInventory
    \/ IGetHotbarSelected

SpecInventory == IInit /\ [][INext]_vars

\* inventory x is the same, or as absent, as before the last call
SameInventory(x) ==
    /\ x \in DOMAIN inventories <=> x \in DOMAIN before.inventories
    /\ x \in DOMAIN inventories => inventories[x] = before.inventories[x]

\* every inventory but w is as before the last call
OthersUnchanged(w) ==
    \A x \in ((DOMAIN inventories) \cup (DOMAIN before.inventories)) \ {w} : SameInventory(x)

\* the slots inventory w had before the last call (none if it was absent)
SlotsBefore(w) == GetInventory(before.inventories, w).slots

\* The inventory a SetSlot message with window id w is stored in.
Target(w) == IF w = -2 THEN PLAYER_INVENTORY_INDEX ELSE w

\* C12: after Handle(SetSlot{w, k, X}) with w >= 0 or w = -2 the target
\* inventory (id w, or the player inventory for w = -2) exists, holds X at slot
\* k and otherwise the slots it held before (none if it was absent); every
\* other inventory, the cursor and the selected hotbar index are unchanged.
C12_SetSlotStores ==
    (lastcall.op = "SetSlot" /\ (lastcall.window_id >= 0 \/ lastcall.window_id = -2)) =>
        LET t == Target(lastcall.window_id)
            k == lastcall.slot
        IN  /\ GetInventory(inventories, t).present
            /\ DOMAIN inventories[t] = (DOMAIN SlotsBefore(t)) \cup {k}
            /\ inventories[t][k] = lastcall.data
            /\ \A j \in (DOMAIN inventories[t]) \ {k} : inventories[t][j] = SlotsBefore(t)[j]
            /\ OthersUnchanged(t)
            /\ cursor = before.cursor
            /\ index_hotbar_selected = before.index_hotbar_selected

\* SetSlot{-2, 36, Y} when the player inventory holds something else at another
\* slot, another inventory exists, and slot 36 held X.
C12_Witness ==
    /\ lastcall.op = "SetSlot" /\ lastcall.window_id = -2 /\ lastcall.slot = 36
    /\ lastcall.data = "Y"
    /\ GetInventory(before.inventories, PLAYER_INVENTORY_INDEX).present
    /\ DOMAIN before.inventories[PLAYER_INVENTORY_INDEX] = {0, 36}
    /\ before.inventories[PLAYER_INVENTORY_INDEX][36] = "X"
    /\ inventories[PLAYER_INVENTORY_INDEX][36] = "Y"
    /\ inventories[PLAYER_INVENTORY_INDEX][0] = "X"

\* the four message kinds the manager handles
Messages == {"SetSlot", "WindowItems", "OpenWindow", "HeldItemChange"}

\* the last call was Handle(SetSlot{-1, -1, X})
CursorMessage ==
    lastcall.op = "SetSlot" /\ lastcall.window_id = -1 /\ lastcall.slot = -1

\* C13: Handle(SetSlot{-1, -1, X}) sets the cursor to X and leaves the set of
\* inventories and every slot of every one unchanged; no other handled message
\* changes the cursor.
C13_CursorIsolation ==
    /\ CursorMessage =>
          /\ cursor = lastcall.data
          /\ inventories = before.inventories
          /\ index_hotbar_selected = before.index_hotbar_selected
    /\ (lastcall.op \in Messages /\ ~CursorMessage) => cursor = before.cursor

\* The cursor holds X and inventories exist when SetSlot{-1, -1, Y} comes.
C13_Witness ==
    /\ CursorMessage /\ lastcall.data = "Y"
    /\ before.cursor = "X" /\ cursor = "Y"
    /\ before.inventories # <<>>
    /\ -1 \notin DOMAIN inventories

\* C14: Handle(SetSlot) with a window id that is not -2, not -1 and not >= 0
\* changes nothing -- inventories, cursor and selected hotbar index are as
\* before -- and leaves the manager able to handle the next message.
C14_UnknownWindowIgnored ==
    (lastcall.op = "SetSlot" /\ lastcall.window_id \notin {-2, -1} /\ lastcall.window_id < 0) =>
        /\ Manager = before
        /\ inventory_manager_mutex = 0
        /\ InvAlive

\* SetSlot{-3, 36, X} on a manager that holds inventories and a cursor.
C14_Witness ==
    /\ lastcall.op = "SetSlot" /\ lastcall.window_id = -3 /\ lastcall.slot = 36
    /\ inventories # <<>> /\ cursor # EmptySlot
    /\ -3 \notin DOMAIN inventories

\* What WindowItems{w, count, items} is to have installed: items[i] at slot i
\* of w for every i < count.
Installed(w, count, items) ==
    /\ GetInventory(inventories, w).present
    /\ \A i \in 0..(count - 1) :
           i \in DOMAIN inventories[w] /\ inventories[w][i] = items[i + 1]

\* the last call was Handle(WindowItems) with count items, as many as it carries
WindowItemsOf(count) ==
    /\ lastcall.op = "WindowItems"
    /\ lastcall.count = count
    /\ Len(lastcall.items) = count

\* C15 as claimed: after Handle(WindowItems{w, items[0..count)}) for any
\* count >= 0, count = 0 included, the inventory with id w exists and its
\* slot i is items[i] for every i < count.
C15_WindowItemsCreates ==
    \A count \in 0..2 :
        WindowItemsOf(count) => Installed(lastcall.window_id, count, lastcall.items)

\* C15 amended: after Handle(WindowItems{w, items[0..count)}) for any
\* count >= 1 the inventory with id w exists (created on demand when it was
\* absent) and its slot i is items[i] for every i < count; for count = 0 the
\* manager is left as it was, so an absent inventory w stays absent.
C15_WindowItemsAssigns ==
    \A count \in 0..2 :
        WindowItemsOf(count) =>
            IF count = 0
            THEN Manager = before
            ELSE Installed(lastcall.window_id, count, lastcall.items)

\* WindowItems{5, 2, [Y, X]} creating inventory 5 beside the player inventory.
C15_Witness ==
    /\ lastcall.op = "WindowItems" /\ lastcall.window_id = 5
    /\ lastcall.count = 2
    /\ lastcall.items = <<"Y", "X">>
    /\ ~GetInventory(before.inventories, 5).present
    /\ GetInventory(before.inventories, PLAYER_INVENTORY_INDEX).present
    /\ inventories[5] = Put(Put(NewInventory, 0, "Y"), 1, "X")

\* After EraseInventory(w) inventory w is absent; after Handle(OpenWindow{w})
\* inventory w is present with no slot stored, whatever it was before, and
\* every other inventory is as before.
ErasedOrOpened ==
    /\ lastcall.op = "EraseInventory" =>
          ~GetInventory(inventories, lastcall.window_id).present
    /\ lastcall.op = "OpenWindow" =>
          /\ GetInventory(inventories, ToShort(lastcall.window_id)).present
          /\ GetInventory(inventories, ToShort(lastcall.window_id)).slots = NewInventory
          /\ OthersUnchanged(ToShort(lastcall.window_id))
          /\ cursor = before.cursor
          /\ index_hotbar_selected = before.index_hotbar_selected

\* Handling OpenWindow{w} right after OpenWindow{w} changes nothing.
OpenedTwice ==
    (/\ handled' = handled + 1
     /\ lastcall.op = "OpenWindow" /\ lastcall'.op = "OpenWindow"
     /\ lastcall'.window_id = lastcall.window_id)
        => Manager' = Manager

\* C16: after EraseInventory(w), GetInventory(w) is absent; after
\* Handle(OpenWindow{w}), whether w was absent, erased or present with slots,
\* GetInventory(w) is present with an empty slot map and all other inventories
\* are unchanged; handling the same OpenWindow twice gives the same state as
\* handling it once.
C16_EraseThenOpen == []ErasedOrOpened /\ [][OpenedTwice]_vars

\* OpenWindow{5} when inventory 5 holds slots and the player inventory exists.
C16_Witness ==
    /\ lastcall.op = "OpenWindow" /\ lastcall.window_id = 5
    /\ GetInventory(before.inventories, 5).present
    /\ before.inventories[5] # NewInventory
    /\ GetInventory(inventories, PLAYER_INVENTORY_INDEX).present
    /\ inventories[5] = NewInventory

\* C17: GetHotbarSelected returns the slot at INVENTORY_HOTBAR_START +
\* index_hotbar_selected of the player inventory when that inventory exists,
\* and the empty slot when it does not.
C17_GetHotbarSelected ==
    lastcall.op = "GetHotbarSelected" =>
        LET inventory == GetPlayerInventory(inventories)
        IN  ret = IF inventory.present
                  THEN InventoryGetSlot(inventory.slots,
                                        INVENTORY_HOTBAR_START + index_hotbar_selected)
                  ELSE EmptySlot

----------------------------------------------------------------------------
(* SpecHotbar: one thread setting the selected hotbar index, by            *)
(* SetHotbarSelected and by HeldItemChangeClientbound messages.            *)

\* the indices the calls and the messages carry
SelectedIndices == {-1, 0, 4, 8, 9, 127}

\* manager.SetHotbarSelected(index)
HSetHotbarSelected ==
    /\ CanHandle
    /\ \E k \in SelectedIndices :
          Becomes(SetHotbarSelected(Manager, k),
                  Call("SetHotbarSelected", 0, k, EmptySlot, <<>>))
    /\ UNCHANGED <<btvars, codecvars, inventory_manager_mutex, threads, ret>>

\* manager.Handle(HeldItemChangeClientbound{slot})
HHandleHeldItemChange ==
    /\ CanHandle
    /\ \E k \in SelectedIndices :
          Becomes(HandleHeldItemChange(Manager, k),
                  Call("HeldItemChange", 0, k, EmptySlot, <<>>))
    /\ UNCHANGED <<btvars, codecvars, inventory_manager_mutex, threads, ret>>

HNext == HSetHotbarSelected \/ HHandleHeldItemChange

SpecHotbar == IInit /\ [][HNext]_vars

\* C24: after construction and after any sequence of SetHotbarSelected calls
\* and handled HeldItemChangeClientbound messages, index_hotbar_selected is in
\* 0..8, so the slot GetHotbarSelected reads lies in the hotbar range
\* [INVENTORY_HOTBAR_START, INVENTORY_HOTBAR_START + 9).
C24_HotbarIndexInRange ==
    /\ index_hotbar_selected \in 0..8
    /\ INVENTORY_HOTBAR_START + index_hotbar_selected
           \in INVENTORY_HOTBAR_START..(INVENTORY_HOTBAR_START + 9 - 1)

\* The index stays in 0..8 as long as every index given was in 0..8.
HotbarIndexAsGiven ==
    /\ lastcall.op \in {"SetHotbarSelected", "HeldItemChange"}
           => index_hotbar_selected = lastcall.slot
    /\ (before.index_hotbar_selected \in 0..8 /\ lastcall.slot \in 0..8)
           => index_hotbar_selected \in 0..8

----------------------------------------------------------------------------
(* SpecThreads: two threads calling the manager at once, statement by      *)
(* statement.  The Handle entry points take inventory_manager_mutex for    *)
(* their whole body; SetSlot, AddInventory, EraseInventory,                *)
(* SetHotbarSelected and SetCursor, called directly, take nothing.         *)

Threads == {1, 2}

\* the entry points that hold a lock_guard on the mutex
Locking == {"Handle(SetSlot)", "Handle(OpenWindow)"}

\* the calls a thread makes: [op, window_id, slot, data]
ThreadCalls ==
    [op : {"Handle(SetSlot)", "SetSlot"}, window_id : {5}, slot : {-1, 36}, data : Items]
    \cup [op : {"Handle(SetSlot)", "SetCursor"}, window_id : {-1}, slot : {-1}, data : {"X"}]
    \cup [op : {"Handle(OpenWindow)", "AddInventory", "EraseInventory"},
          window_id : {5}, slot : {0}, data : {EmptySlot}]
    \cup [op : {"SetHotbarSelected"}, window_id : {0}, slot : {1}, data : {EmptySlot}]

\* the member function whose statements a call runs once it is past the lock
Routine(c) ==
    CASE c.op = "Handle(SetSlot)" ->
             IF c.window_id = -1 /\ c.slot = -1 THEN "SetCursor"
             ELSE IF c.window_id = -2 \/ c.window_id >= 0 THEN "SetSlot"
             ELSE "none"
      [] c.op = "Handle(OpenWindow)" -> "AddInventory"
      [] OTHER -> c.op

\* a thread between two calls; hit: another thread's statement ran at the
\* same time as the one this thread is at; stale: the iterator or the
\* Inventory this thread holds was freed by another thread
IdleThread ==
    [pc |-> "idle", call |-> [op |-> "none", window_id |-> 0, slot |-> 0, data |-> EmptySlot],
     found |-> FALSE, raced |-> FALSE, hit |-> FALSE, stale |-> FALSE]

\* InventoryManager manager; shared by both threads
ThInit ==
    /\ BtIdle /\ CodecIdle
    /\ inventories = NewInventoryManager.inventories
    /\ cursor = NewInventoryManager.cursor
    /\ index_hotbar_selected = NewInventoryManager.index_hotbar_selected
    /\ inventory_manager_mutex = 0
    /\ threads = [t \in Threads |-> IdleThread]
    /\ handled = 0
    /\ lastcall = NoCall
    /\ before = NewInventoryManager
    /\ ret = EmptySlot

\* where a call goes once its routine is done
Exit(t) == IF threads[t].call.op \in Locking THEN "unlock" ELSE "return"

\* the window id the routine works on
Window(c) == IF c.op = "Handle(SetSlot)" THEN Target(c.window_id) ELSE ToShort(c.window_id)

\* thread u has touched the manager's members in its call and is to touch them again
Inside(u) == threads[u].pc \in {"create", "lookup", "write"}

\* thread t touches the members while another thread is between two touches
Interleaves(t) == \E u \in Threads \ {t} : Inside(u)

\* What the statement thread u is at does to the std::map and the pointers in
\* it: reads ("R"), writes ("W"), or neither.  find reads; operator[] reads
\* when the key is there and inserts when it is not; the assignment of a new
\* shared_ptr writes; erase writes when the key is there.
MapAccess(u) ==
    LET c == threads[u].call
        pc == threads[u].pc
        present == Window(c) \in DOMAIN inventories
    IN  IF pc = "find" THEN "R"
        ELSE IF pc = "create" THEN "W"
        ELSE IF pc = "lookup" THEN (IF threads[u].found \/ present THEN "R" ELSE "W")
        ELSE IF pc = "single" /\ Routine(c) = "AddInventory" THEN "W"
        ELSE IF pc = "single" /\ Routine(c) = "EraseInventory"
        THEN (IF present THEN "W" ELSE "R")
        ELSE "none"

\* Threads t and u are both at GetSlots()[index] = slot on what may be one
\* Inventory: the one the key has, or one that was freed meanwhile, whose
\* storage the Inventory the key has now may have been given.
SameInventoryObject(t, u) ==
    /\ threads[t].pc = "write" /\ threads[u].pc = "write"
    /\ Window(threads[t].call) = Window(threads[u].call)

\* threads t and u are both at cursor = c; of SetCursor: two assignments to
\* the one Slot, a class object
SameCursor(t, u) ==
    /\ threads[t].pc = "single" /\ Routine(threads[t].call) = "SetCursor"
    /\ threads[u].pc = "single" /\ Routine(threads[u].call) = "SetCursor"

\* The statements threads t and u are at conflict: they touch one object, one
\* of them writes it, and nothing orders them (a data race).
ConflictWith(t, u) ==
    \/ /\ MapAccess(t) # "none" /\ MapAccess(u) # "none"
       /\ "W" \in {MapAccess(t), MapAccess(u)}
    \/ SameInventoryObject(t, u)
    \/ SameCursor(t, u)

\* the statement thread t is at races with one of another thread
Racing(t) == threads[t].hit \/ \E u \in Threads \ {t} : ConflictWith(t, u)

\* Thread u holds an iterator to the node of window w or a pointer to its
\* Inventory, and the statement that is run frees it: erase frees the node
\* and the Inventory, the assignment of a new shared_ptr the Inventory only.
Dangles(u, w, how) ==
    /\ how # "none"
    /\ w \in DOMAIN inventories
    /\ Window(threads[u].call) = w
    /\ \/ threads[u].pc = "write"
       \/ how = "erase" /\ threads[u].pc = "lookup" /\ threads[u].found

\* thread t moves to pc, having run its statement on window w
Touch(t, pc, found, stale, w, how) ==
    threads' = [u \in Threads |->
                   IF u = t
                   THEN [threads[t] EXCEPT !.pc = pc, !.found = found, !.stale = stale,
                                           !.hit = FALSE,
                                           !.raced = @ \/ Interleaves(t)]
                   ELSE [threads[u] EXCEPT !.hit = @ \/ ConflictWith(t, u),
                                           !.stale = @ \/ Dangles(u, w, how)]]

\* the process dies in the statement thread t is at
Dies == ret' = Fault /\ UNCHANGED <<inventories, cursor, index_hotbar_selected, threads>>

\* thread t calls the manager
ThCall(t) ==
    /\ InvAlive /\ handled < MaxMessages
    /\ threads[t].pc = "idle"
    /\ \E c \in ThreadCalls :
          threads' = [threads EXCEPT ![t].call = c, ![t].found = FALSE,
                        ![t].pc = IF c.op \in Locking THEN "lock"
                                  ELSE IF Routine(c) = "SetSlot" THEN "find" ELSE "single"]
    /\ handled' = handled + 1
    /\ UNCHANGED <<btvars, codecvars, inventories, cursor, index_hotbar_selected,
                   inventory_manager_mutex, lastcall, before, ret>>

\* std::lock_guard<std::mutex> locker(inventory_manager_mutex);
ThLock(t) ==
    /\ InvAlive
    /\ threads[t].pc = "lock"
    /\ inventory_manager_mutex = 0
    /\ inventory_manager_mutex' = t
    /\ threads' = [threads EXCEPT ![t].pc =
                      IF Routine(threads[t].call) = "SetSlot" THEN "find"
                      ELSE IF Routine(threads[t].call) = "none" THEN "unlock" ELSE "single"]
    /\ UNCHANGED <<btvars, codecvars, inventories, cursor, index_hotbar_selected,
                   handled, lastcall, before, ret>>

\* SetSlot: auto it = inventories.find(window_id); if (it == inventories.end())
\* A find that runs while another thread changes the map may not return.
ThFind(t) ==
    /\ InvAlive
    /\ threads[t].pc = "find"
    /\ LET w == Window(threads[t].call)
       IN  \/ /\ Touch(t, IF w \in DOMAIN inventories THEN "lookup" ELSE "create",
                       w \in DOMAIN inventories, FALSE, w, "none")
              /\ UNCHANGED <<inventories, cursor, index_hotbar_selected, ret>>
           \/ Racing(t) /\ Dies
    /\ UNCHANGED <<btvars, codecvars, inventory_manager_mutex, handled, lastcall, before>>

\* SetSlot: inventories[window_id] = std::shared_ptr<Inventory>(new Inventory);
\* the Inventory the key had, if any, is freed.  Run while another thread is
\* in the map, the statement may also kill the process or leave the map broken.
ThCreate(t) ==
    /\ InvAlive
    /\ threads[t].pc = "create"
    /\ LET w == Window(threads[t].call)
       IN  \/ /\ inventories' = AddInventory(inventories, w)
              /\ Touch(t, "lookup", FALSE, FALSE, w, "replace")
              /\ ret' \in IF Racing(t) THEN {ret, Corrupt} ELSE {ret}
              /\ UNCHANGED <<cursor, index_hotbar_selected>>
           \/ Racing(t) /\ Dies
    /\ UNCHANGED <<btvars, codecvars, inventory_manager_mutex, handled, lastcall, before>>

\* SetSlot: the Inventory the store goes to: inventories[window_id]-> after a
\* create, it->second-> after a find that found.  operator[] inserts a null
\* pointer when another thread erased the key meanwhile, and -> on it does
\* not return; an iterator to an erased node reads freed storage, which kills
\* the process or yields the pointer the node held.
ThLookup(t) ==
    /\ InvAlive
    /\ threads[t].pc = "lookup"
    /\ LET w == Window(threads[t].call)
           found == threads[t].found
           stale == threads[t].stale
       IN  \/ /\ found \/ w \in DOMAIN inventories
              /\ Touch(t, "write", found, stale, w, "none")
              /\ UNCHANGED <<inventories, cursor, index_hotbar_selected, ret>>
           \/ /\ \/ ~found /\ w \notin DOMAIN inventories
                 \/ found /\ stale
                 \/ Racing(t)
              /\ Dies
    /\ UNCHANGED <<btvars, codecvars, inventory_manager_mutex, handled, lastcall, before>>

\* SetSlot: ...->GetSlots()[index] = slot.  A store into an Inventory that was
\* freed meanwhile changes nothing the manager holds, lands in the Inventory
\* the key has now (its storage handed out again), or kills the process.  Two
\* stores into one Inventory at once may lose either, put the slot of one at
\* the index of the other, leave a Slot that is neither (a torn store) or a
\* slot map that is broken, or kill the process.
ThWrite(t) ==
    /\ InvAlive
    /\ threads[t].pc = "write"
    /\ LET c == threads[t].call
           w == Window(c)
           Slots == IF Racing(t) THEN {EmptySlot} \cup Items ELSE {c.data}
       IN  \/ /\ ~threads[t].stale \/ w \in DOMAIN inventories
              /\ \E d \in Slots : inventories' = SetSlot(inventories, w, c.slot, d)
              /\ Touch(t, Exit(t), FALSE, FALSE, w, "none")
              /\ ret' \in IF Racing(t) THEN {ret, Corrupt} ELSE {ret}
              /\ UNCHANGED <<cursor, index_hotbar_selected>>
           \/ /\ threads[t].stale \/ Racing(t)
              /\ Touch(t, Exit(t), FALSE, FALSE, w, "none")
              /\ UNCHANGED <<inventories, cursor, index_hotbar_selected, ret>>
           \/ /\ threads[t].stale \/ Racing(t)
              /\ Dies
    /\ UNCHANGED <<btvars, codecvars, inventory_manager_mutex, handled, lastcall, before>>

\* the one statement of AddInventory, EraseInventory, SetHotbarSelected,
\* SetCursor.  An erase or an assignment run while another thread is in the
\* map may also kill the process (the node freed twice) or leave the map
\* broken, and so may cursor = c; run while another thread assigns the cursor.
ThSingle(t) ==
    /\ InvAlive
    /\ threads[t].pc = "single"
    /\ LET c == threads[t].call
           m == CASE Routine(c) = "AddInventory" ->
                         [Manager EXCEPT !.inventories = AddInventory(@, Window(c))]
                  [] Routine(c) = "EraseInventory" ->
                         [Manager EXCEPT !.inventories = EraseInventory(@, Window(c))]
                  [] Routine(c) = "SetHotbarSelected" -> SetHotbarSelected(Manager, c.slot)
                  [] Routine(c) = "SetCursor" -> SetCursor(Manager, c.data)
           how == IF Routine(c) = "AddInventory" THEN "replace"
                  ELSE IF Routine(c) = "EraseInventory" THEN "erase" ELSE "none"
       IN  \/ /\ inventories' = m.inventories
              /\ cursor' = m.cursor
              /\ index_hotbar_selected' = m.index_hotbar_selected
              /\ Touch(t, Exit(t), FALSE, FALSE, Window(c), how)
              /\ ret' \in IF Racing(t) THEN {ret, Corrupt} ELSE {ret}
           \/ Racing(t) /\ Dies
    /\ UNCHANGED <<btvars, codecvars, inventory_manager_mutex, handled, lastcall, before>>

\* end of a Handle body: the lock_guard releases the mutex
ThUnlock(t) ==
    /\ InvAlive
    /\ threads[t].pc = "unlock"
    /\ inventory_manager_mutex' = 0
    /\ threads' = [threads EXCEPT ![t].pc = "idle"]
    /\ lastcall' = Call(threads[t].call.op, threads[t].call.window_id,
                        threads[t].call.slot, threads[t].call.data, <<>>)
    /\ UNCHANGED <<btvars, codecvars, inventories, cursor, index_hotbar_selected,
                   handled, before, ret>>

\* end of a member function called directly
ThReturn(t) ==
    /\ InvAlive
    /\ threads[t].pc = "return"
    /\ threads' = [threads EXCEPT ![t].pc = "idle"]
    /\ lastcall' = Call(threads[t].call.op, threads[t].call.window_id,
                        threads[t].call.slot, threads[t].call.data, <<>>)
    /\ UNCHANGED <<btvars, codecvars, inventories, cursor, index_hotbar_selected,
                   inventory_manager_mutex, handled, before, ret>>

ThNext ==
    \E t \in Threads :
        \/ ThCall(t)
        \/ ThLock(t)
        \/ ThFind(t)
        \/ ThCreate(t)
        \/ ThLookup(t)
        \/ ThWrite(t)
        \/ ThSingle(t)
        \/ ThUnlock(t)
        \/ ThReturn(t)

SpecThreads == ThInit /\ [][ThNext]_vars

\* C18: every state-mutating path of the manager is serialised by its one
\* mutex: for two threads in any of SetSlot, AddInventory, EraseInventory,
\* SetHotbarSelected, SetCursor or a Handle entry point at once, the accesses
\* of the two calls to the inventories, cursor and hotbar index never
\* interleave.
C18_MutatingPathsSerialised ==
    \A t \in DOMAIN threads : ~threads[t].raced

----------------------------------------------------------------------------
(* SpecHandlers: two threads handing server messages to the manager at     *)
(* once, through the four Handle entry points only, statement by           *)
(* statement: the lock_guard, the dispatch, the for loop of WindowItems    *)
(* and the statements of SetSlot, AddInventory, SetHotbarSelected and      *)
(* SetCursor that the handlers call.                                       *)

\* the messages the threads hand over
HandlerMessages ==
    {Call("SetSlot", 5, 0, "X", <<>>),
     Call("SetSlot", -2, 36, "Y", <<>>),
     Call("SetSlot", -1, -1, "Y", <<>>),
     Call("SetSlot", -3, 0, "X", <<>>),
     WindowItemsMsg(5, 2, <<"Y", "X">>),
     WindowItemsMsg(5, 1, <<"Y", "X">>),
     WindowItemsMsg(0, 1, <<"X">>),
     WindowItemsMsg(0, 2, <<"X">>),
     WindowItemsMsg(5, 0, <<>>),
     Call("OpenWindow", 5, 0, EmptySlot, <<>>),
     Call("HeldItemChange", 0, 1, EmptySlot, <<>>)}

\* What the four Handle overloads, each taken as a whole, can have made of
\* manager m when they return.
Handle(m, c) ==
    CASE c.op = "SetSlot" -> {HandleSetSlot(m, c.window_id, c.slot, c.data)}
      [] c.op = "WindowItems" ->
             {r.manager : r \in {o \in HandleWindowItems(m, c.window_id, c.count, c.items) :
                                    ~o.died}}
      [] c.op = "OpenWindow" -> {HandleOpenWindow(m, c.window_id)}
      [] c.op = "HeldItemChange" -> {HandleHeldItemChange(m, c.slot)}

\* a thread between two messages; slot: the argument msg.GetSlotData()[i] of
\* the SetSlot call the for loop of WindowItems is making
IdleHandler == [pc |-> "idle", call |-> NoCall, i |-> 0, found |-> FALSE, slot |-> EmptySlot]

\* InventoryManager manager; shared by both threads
HdInit ==
    /\ BtIdle /\ CodecIdle
    /\ inventories = NewInventoryManager.inventories
    /\ cursor = NewInventoryManager.cursor
    /\ index_hotbar_selected = NewInventoryManager.index_hotbar_selected
    /\ inventory_manager_mutex = 0
    /\ threads = [t \in Threads |-> IdleHandler]
    /\ handled = 0
    /\ lastcall = NoCall
    /\ before = NewInventoryManager
    /\ ret = EmptySlot

\* the first statement of a handler body once the mutex is taken
Dispatch(c) ==
    CASE c.op = "SetSlot" ->
             IF c.window_id = -1 /\ c.slot = -1 THEN "single"
             ELSE IF c.window_id = -2 \/ c.window_id >= 0 THEN "find"
             ELSE "unlock"
      [] c.op = "WindowItems" -> "loop"
      [] OTHER -> "single"

\* the arguments of the SetSlot call thread t is in: [window_id, index, slot]
SetSlotArgs(t) ==
    LET c == threads[t].call
    IN  IF c.op = "WindowItems"
        THEN [window_id |-> c.window_id, index |-> ToShort(threads[t].i),
              slot |-> threads[t].slot]
        ELSE [window_id |-> Target(c.window_id), index |-> c.slot, slot |-> c.data]

\* thread t is handed a message: manager.Handle(msg)
HdCall(t) ==
    /\ InvAlive
    /\ handled < MaxMessages
    /\ threads[t].pc = "idle"
    /\ \E c \in HandlerMessages :
          threads' = [threads EXCEPT ![t] = [IdleHandler EXCEPT !.pc = "lock", !.call = c]]
    /\ handled' = handled + 1
    /\ UNCHANGED <<btvars, codecvars, inventories, cursor, index_hotbar_selected,
                   inventory_manager_mutex, lastcall, before, ret>>

\* A lock_guard that does not wait for the mutex.
HdLockNoWait(t) ==
    /\ InvAlive
    /\ threads[t].pc = "lock"
    /\ inventory_manager_mutex' = t
    /\ before' = Manager
    /\ threads' = [threads EXCEPT ![t].pc = Dispatch(threads[t].call)]
    /\ UNCHANGED <<btvars, codecvars, inventories, cursor, index_hotbar_selected,
                   handled, lastcall, ret>>

\* std::lock_guard<std::mutex> locker(inventory_manager_mutex); and the
\* if / else if chain of Handle(SetSlot&)
HdLock(t) ==
    /\ InvAlive
    /\ threads[t].pc = "lock"
    /\ inventory_manager_mutex = 0
    /\ inventory_manager_mutex' = t
    /\ before' = Manager
    /\ threads' = [threads EXCEPT ![t].pc = Dispatch(threads[t].call)]
    /\ UNCHANGED <<btvars, codecvars, inventories, cursor, index_hotbar_selected,
                   handled, lastcall, ret>>

\* Handle(WindowItems&): for (int i = 0; i < msg.GetCount(); ++i), and the
\* argument msg.GetSlotData()[i] of the SetSlot call in its body; a read of
\* slot_data past its end kills the process where it stands, mutex taken, or
\* goes on with the Slot it came by
HdLoop(t) ==
    /\ InvAlive
    /\ threads[t].pc = "loop"
    /\ LET c == threads[t].call
           i == threads[t].i
       IN  IF i < c.count
           THEN \/ /\ \E slot \in SlotDataAt(c.items, i) :
                         threads' = [threads EXCEPT ![t].pc = "find", ![t].slot = slot]
                   /\ ret' = ret
                \/ /\ ~InSlotData(c.items, i)
                   /\ threads' = threads /\ ret' = Fault
           ELSE threads' = [threads EXCEPT ![t].pc = "unlock"] /\ ret' = ret
    /\ UNCHANGED <<btvars, codecvars, inventories, cursor, index_hotbar_selected,
                   inventory_manager_mutex, handled, lastcall, before>>

\* SetSlot: auto it = inventories.find(window_id); if (it == inventories.end())
HdFind(t) ==
    /\ InvAlive
    /\ threads[t].pc = "find"
    /\ LET w == SetSlotArgs(t).window_id
       IN  threads' = [threads EXCEPT
                          ![t].pc = IF w \in DOMAIN inventories THEN "write" ELSE "create",
                          ![t].found = w \in DOMAIN inventories]
    /\ UNCHANGED <<btvars, codecvars, inventories, cursor, index_hotbar_selected,
                   inventory_manager_mutex, handled, lastcall, before, ret>>

\* SetSlot: inventories[window_id] = std::shared_ptr<Inventory>(new Inventory);
HdCreate(t) ==
    /\ InvAlive
    /\ threads[t].pc = "create"
    /\ inventories' = Put(inventories, SetSlotArgs(t).window_id, NewInventory)
    /\ threads' = [threads EXCEPT ![t].pc = "write"]
    /\ UNCHANGED <<btvars, codecvars, cursor, index_hotbar_selected,
                   inventory_manager_mutex, handled, lastcall, before, ret>>

\* SetSlot: inventories[window_id]->GetSlots()[index] = slot; or
\* it->second->GetSlots()[index] = slot; then back to the caller, which is
\* the for loop (++i) or the end of Handle(SetSlot&)
HdWrite(t) ==
    /\ InvAlive
    /\ threads[t].pc = "write"
    /\ LET a == SetSlotArgs(t)
       IN  inventories' = Put(inventories, a.window_id,
                              Put(inventories[a.window_id], a.index, a.slot))
    /\ threads' = IF threads[t].call.op = "WindowItems"
                  THEN [threads EXCEPT ![t].pc = "loop", ![t].i = @ + 1]
                  ELSE [threads EXCEPT ![t].pc = "unlock"]
    /\ UNCHANGED <<btvars, codecvars, cursor, index_hotbar_selected,
                   inventory_manager_mutex, handled, lastcall, before, ret>>

\* the one statement of SetCursor, AddInventory and SetHotbarSelected
HdSingle(t) ==
    /\ InvAlive
    /\ threads[t].pc = "single"
    /\ LET c == threads[t].call
       IN  CASE c.op = "SetSlot" ->
                    /\ cursor' = c.data
                    /\ UNCHANGED <<inventories, index_hotbar_selected>>
             [] c.op = "OpenWindow" ->
                    /\ inventories' = Put(inventories, ToShort(c.window_id), NewInventory)
                    /\ UNCHANGED <<cursor, index_hotbar_selected>>
             [] c.op = "HeldItemChange" ->
                    /\ index_hotbar_selected' = ToShort(c.slot)
                    /\ UNCHANGED <<inventories, cursor>>
    /\ threads' = [threads EXCEPT ![t].pc = "unlock"]
    /\ UNCHANGED <<btvars, codecvars, inventory_manager_mutex, handled, lastcall,
                   before, ret>>

\* end of the Handle body: the lock_guard releases the mutex
HdUnlock(t) ==
    /\ InvAlive
    /\ threads[t].pc = "unlock"
    /\ inventory_manager_mutex' = 0
    /\ lastcall' = threads[t].call
    /\ threads' = [threads EXCEPT ![t].pc = "idle"]
    /\ UNCHANGED <<btvars, codecvars, inventories, cursor, index_hotbar_selected,
                   handled, before, ret>>

\* the next statement of the handler thread t is in
HdStep(t) ==
    \/ HdLock(t)
    \/ HdLoop(t)
    \/ HdFind(t)
    \/ HdCreate(t)
    \/ HdWrite(t)
    \/ HdSingle(t)
    \/ HdUnlock(t)

HdNext == \E t \in Threads : HdCall(t) \/ HdStep(t)

SpecHandlers == HdInit /\ [][HdNext]_vars

\* thread t is past the lock_guard of a handler and before its release
InHandler(t) == threads[t].pc \in {"loop", "find", "create", "write", "single", "unlock"}

\* Every thread but the holder of the mutex is between two messages or
\* waiting at the lock_guard, with nothing of its message applied.
OthersOutside ==
    \A t \in Threads : inventory_manager_mutex = t =>
        \A u \in Threads \ {t} :
            threads[u].pc \in {"idle", "lock"} /\ (threads[u].pc = "lock" => threads[u].i = 0)

\* A thread in a handler can take its next step unless another thread holds
\* the mutex.
NoSelfDeadlock ==
    \A t \in Threads :
        (InvAlive /\ threads[t].pc # "idle" /\ inventory_manager_mutex \in {0, t})
            => ENABLED HdStep(t)

\* With the mutex free, the manager is what the last handler to take it
\* makes, applied whole, of the manager as it was when it took the mutex.
AppliedInLockOrder ==
    inventory_manager_mutex = 0 =>
        IF lastcall = NoCall THEN Manager = NewInventoryManager
        ELSE Manager \in Handle(before, lastcall)

\* C25: each of the four Handle entry points holds the mutex for its whole
\* effect and takes it only once: for any concurrent invocation of handlers a
\* thread is inside a handler body exactly when it holds the mutex, no thread
\* holding the mutex sees a partially applied WindowItems of another thread,
\* no handler deadlocks on itself, and the final state is that of the
\* messages applied one after another in the order they took the mutex.
C25_HandlersAtomic ==
    /\ \A t \in Threads : InHandler(t) <=> inventory_manager_mutex = t
    /\ OthersOutside
    /\ NoSelfDeadlock
    /\ AppliedInLockOrder

\* Thread 1 is half way through WindowItems{5, [Y, X]}, slot 0 stored and slot 1
\* not yet, while thread 2 waits at the lock with SetSlot{5, 0, X}.
C25_Witness ==
    /\ inventory_manager_mutex = 1
    /\ threads[1].call = WindowItemsMsg(5, 2, <<"Y", "X">>)
    /\ threads[1].pc = "loop" /\ threads[1].i = 1
    /\ 5 \in DOMAIN inventories
    /\ inventories[5] = Put(NewInventory, 0, "Y")
    /\ threads[2].pc = "lock" /\ threads[2].call = Call("SetSlot", 5, 0, "X", <<>>)

----------------------------------------------------------------------------
(* ServerboundKeyPacket and SaltSignature on the layout of protocol > 758: *)
(* the wire primitives, Write and Read.                                    *)

\* a 128-byte array: the shortest whose length takes two VarInt bytes
LongArray == [i \in 1..128 |-> 0]

\* the byte arrays and salts given to the setters
ByteArrays == {<<>>, <<170>>, <<1, 2>>, LongArray}
Signatures == {<<>>, <<222, 173>>}
Salts == {<<258, 772, 1286, 1800>>, SizeMax}

\* long long int salt; no constructor assigns it, and it holds whatever the
\* storage of its SaltSignature held: the contents the model makes them on
SaltStorage == {g \in {SizeZero, <<1799, 1799, 1799, 1799>>, SizeMax} : g \in Indeterminate}

\* SaltSignature ss; made on storage holding g: a salt nothing has set, and an
\* empty signature
NewSaltSignature(g) == [salt |-> g, signature |-> <<>>]

\* ServerboundKeyPacket msg; made on storage holding g: empty vectors and a
\* SaltSignature
NewKeyPacket(g) == [key_bytes |-> <<>>, nonce |-> <<>>, salt_signature |-> NewSaltSignature(g)]

\* WriteData<VarInt>: 7 bits a byte, low group first, high bit = more to come
RECURSIVE WriteVarInt(_)
WriteVarInt(v) ==
    IF v < 128 THEN <<v>> ELSE <<(v % 128) + 128>> \o WriteVarInt(v \div 128)

\* WriteData<bool>
WriteBool(b) == <<IF b THEN 1 ELSE 0>>

\* WriteData<long long int>: eight bytes, most significant first
WriteLongLong(x) ==
    [i \in 1..8 |-> IF i % 2 = 1 THEN x[(i + 1) \div 2] \div 256 ELSE x[i \div 2] % 256]

\* WriteByteArray
WriteByteArray(a) == a

\* what a read gives: the value, the bytes still to read, and whether it succeeded
Got(v, rest) == [v |-> v, rest |-> rest, ok |-> TRUE]
Failed(rest) == [v |-> <<>>, rest |-> rest, ok |-> FALSE]

\* ReadByteArray: the next n bytes; fails when fewer are left
ReadByteArray(rest, n) ==
    IF n >= 0 /\ n <= Len(rest)
    THEN Got(SubSeq(rest, 1, n), SubSeq(rest, n + 1, Len(rest)))
    ELSE Failed(rest)

\* ReadData<VarInt>
RECURSIVE ReadVarIntLoop(_, _, _, _)
ReadVarIntLoop(rest, value, mult, num_read) ==
    IF rest = <<>> \/ num_read >= 5
    THEN Failed(rest)
    ELSE LET v2 == value + (Head(rest) % 128) * mult
         IN  IF Head(rest) >= 128
             THEN ReadVarIntLoop(Tail(rest), v2, mult * 128, num_read + 1)
             ELSE Got(v2, Tail(rest))
ReadVarInt(rest) == ReadVarIntLoop(rest, 0, 1, 0)

\* ReadData<bool>
ReadBool(rest) ==
    IF rest = <<>> THEN Failed(rest) ELSE Got(Head(rest) # 0, Tail(rest))

\* ReadData<long long int>
ReadLongLong(rest) ==
    LET r == ReadByteArray(rest, 8)
    IN  IF r.ok
        THEN Got([i \in 1..4 |-> r.v[2 * i - 1] * 256 + r.v[2 * i]], r.rest)
        ELSE r

\* SaltSignature::WriteImpl
SaltSignatureWrite(ss) ==
    WriteLongLong(ss.salt) \o WriteVarInt(Len(ss.signature)) \o WriteByteArray(ss.signature)

\* SaltSignature::ReadImpl into ss
SaltSignatureRead(ss, rest) ==
    LET salt == ReadLongLong(rest)
        signature_size == ReadVarInt(salt.rest)
        signature == ReadByteArray(signature_size.rest, signature_size.v)
    IN  IF ~salt.ok THEN [Failed(salt.rest) EXCEPT !.v = ss]
        ELSE IF ~signature_size.ok
        THEN [Failed(signature_size.rest) EXCEPT !.v = [ss EXCEPT !.salt = salt.v]]
        ELSE IF ~signature.ok
        THEN [Failed(signature.rest) EXCEPT !.v = [ss EXCEPT !.salt = salt.v]]
        ELSE Got([salt |-> salt.v, signature |-> signature.v], signature.rest)

\* A WriteImpl that writes whether there is a signature where has_nonce goes.
KeyPacketWriteHasSignature(m) ==
    WriteVarInt(Len(m.key_bytes)) \o WriteByteArray(m.key_bytes)
    \o WriteBool(m.salt_signature.signature # <<>>)
    \o (IF m.salt_signature.signature = <<>>
        THEN WriteVarInt(Len(m.nonce)) \o WriteByteArray(m.nonce)
        ELSE SaltSignatureWrite(m.salt_signature))

\* ServerboundKeyPacket::WriteImpl
KeyPacketWrite(m) ==
    WriteVarInt(Len(m.key_bytes)) \o WriteByteArray(m.key_bytes)
    \o WriteBool(m.salt_signature.signature = <<>>)
    \o (IF m.salt_signature.signature = <<>>
        THEN WriteVarInt(Len(m.nonce)) \o WriteByteArray(m.nonce)
        ELSE SaltSignatureWrite(m.salt_signature))

\* ServerboundKeyPacket::ReadImpl, from the flag on, into m
KeyPacketReadBody(m, rest) ==
    LET has_nonce == ReadBool(rest)
        nonce_length == ReadVarInt(has_nonce.rest)
        nonce == ReadByteArray(nonce_length.rest, nonce_length.v)
        ss == SaltSignatureRead(m.salt_signature, has_nonce.rest)
    IN  IF ~has_nonce.ok THEN [Failed(has_nonce.rest) EXCEPT !.v = m]
        ELSE IF has_nonce.v
        THEN IF ~nonce_length.ok THEN [Failed(nonce_length.rest) EXCEPT !.v = m]
             ELSE IF ~nonce.ok THEN [Failed(nonce.rest) EXCEPT !.v = m]
             ELSE Got([m EXCEPT !.nonce = nonce.v], nonce.rest)
        ELSE [ss EXCEPT !.v = [m EXCEPT !.salt_signature = ss.v]]

\* A ReadImpl that reads a SaltSignature when the flag is set and a nonce when not.
KeyPacketReadSwapped(m, rest) ==
    LET key_bytes_length == ReadVarInt(rest)
        key_bytes == ReadByteArray(key_bytes_length.rest, key_bytes_length.v)
        flipped == IF key_bytes.ok /\ key_bytes.rest # <<>>
                   THEN <<IF Head(key_bytes.rest) = 0 THEN 1 ELSE 0>> \o Tail(key_bytes.rest)
                   ELSE key_bytes.rest
    IN  IF ~key_bytes_length.ok THEN [Failed(key_bytes_length.rest) EXCEPT !.v = m]
        ELSE IF ~key_bytes.ok THEN [Failed(key_bytes.rest) EXCEPT !.v = m]
        ELSE KeyPacketReadBody([m EXCEPT !.key_bytes = key_bytes.v], flipped)

\* ServerboundKeyPacket::ReadImpl into m
KeyPacketRead(m, rest) ==
    LET key_bytes_length == ReadVarInt(rest)
        key_bytes == ReadByteArray(key_bytes_length.rest, key_bytes_length.v)
    IN  IF ~key_bytes_length.ok THEN [Failed(key_bytes_length.rest) EXCEPT !.v = m]
        ELSE IF ~key_bytes.ok THEN [Failed(key_bytes.rest) EXCEPT !.v = m]
        ELSE KeyPacketReadBody([m EXCEPT !.key_bytes = key_bytes.v], key_bytes.rest)

----------------------------------------------------------------------------
(* SpecCodec: a ServerboundKeyPacket filled through its setters, written,  *)
(* and the bytes read into a fresh ServerboundKeyPacket.                   *)

\* ServerboundKeyPacket msg;
KInit ==
    /\ BtIdle /\ InvIdle
    /\ \E g \in SaltStorage : packet = NewKeyPacket(g)
    /\ wire = <<>>
    /\ decoded = <<>>

\* msg.SetKeyBytes(key_bytes_)
KSetKeyBytes ==
    /\ wire = <<>>
    /\ \E b \in ByteArrays : packet' = [packet EXCEPT !.key_bytes = b]
    /\ UNCHANGED <<btvars, invvars, wire, decoded>>

\* msg.SetNonce(nonce_)
KSetNonce ==
    /\ wire = <<>>
    /\ \E b \in ByteArrays \ {LongArray} : packet' = [packet EXCEPT !.nonce = b]
    /\ UNCHANGED <<btvars, invvars, wire, decoded>>

\* SaltSignature ss; ss.SetSalt(salt_); ss.SetSignature(signature_); msg.SetHasSignature(ss)
KSetHasSignature ==
    /\ wire = <<>>
    /\ \E x \in Salts, g \in Signatures :
          packet' = [packet EXCEPT !.salt_signature = [salt |-> x, signature |-> g]]
    /\ UNCHANGED <<btvars, invvars, wire, decoded>>

\* msg.Write(container)
KWrite ==
    /\ wire = <<>>
    /\ wire' = KeyPacketWrite(packet)
    /\ UNCHANGED <<btvars, invvars, packet, decoded>>

\* ServerboundKeyPacket other; other.Read(iter, length) over the bytes
\* written; fresh keeps other as it was made, on storage of its own
KRead ==
    /\ wire # <<>>
    /\ decoded = <<>>
    /\ \E g \in SaltStorage :
          LET other == NewKeyPacket(g)
              r == KeyPacketRead(other, wire)
          IN  decoded' = [v |-> r.v, rest |-> r.rest, ok |-> r.ok, fresh |-> other]
    /\ UNCHANGED <<btvars, invvars, packet, wire>>

KNext == KSetKeyBytes \/ KSetNonce \/ KSetHasSignature \/ KWrite \/ KRead

SpecCodec == KInit /\ [][KNext]_vars

\* the written bytes have been read back
ReadBack == decoded # <<>>

\* C19 as claimed: for every message value set through the setters, reading
\* the bytes written from it into a fresh message gives a message with the
\* same key_bytes, nonce and salt_signature.
C19_RoundTrip ==
    ReadBack =>
        /\ decoded.ok
        /\ decoded.v.key_bytes = packet.key_bytes
        /\ decoded.v.nonce = packet.nonce
        /\ decoded.v.salt_signature = packet.salt_signature

\* C19 amended: reading the bytes written from v into a fresh message gives
\* v's key_bytes; v's nonce when v's signature is empty, the salt_signature
\* then being left as the fresh message had it; and v's salt and signature when
\* v's signature is not empty, the nonce then being left empty.
C19_RoundTripOfWhatIsWritten ==
    ReadBack =>
        /\ decoded.ok /\ decoded.rest = <<>>
        /\ decoded.v.key_bytes = packet.key_bytes
        /\ IF packet.salt_signature.signature = <<>>
           THEN /\ decoded.v.nonce = packet.nonce
                /\ decoded.v.salt_signature = decoded.fresh.salt_signature
           ELSE /\ decoded.v.salt_signature = packet.salt_signature
                /\ decoded.v.nonce = decoded.fresh.nonce /\ decoded.v.nonce = <<>>

\* A 128-byte key, a nonce and a signed salt, all set: the signature comes back,
\* the nonce does not.
C19_Witness ==
    /\ ReadBack
    /\ packet.key_bytes = LongArray /\ decoded.v.key_bytes = LongArray
    /\ packet.nonce = <<170>> /\ decoded.v.nonce = <<>>
    /\ packet.salt_signature = [salt |-> <<258, 772, 1286, 1800>>, signature |-> <<222, 173>>]
    /\ decoded.v.salt_signature = packet.salt_signature

\* the bytes before the flag, and the two bodies that can follow it
KeyPart == WriteVarInt(Len(packet.key_bytes)) \o packet.key_bytes
NonceBody == WriteVarInt(Len(packet.nonce)) \o packet.nonce
SignatureBody ==
    WriteLongLong(packet.salt_signature.salt)
    \o WriteVarInt(Len(packet.salt_signature.signature)) \o packet.salt_signature.signature

\* C20: Write emits the VarInt key length, the key bytes, one bool byte and
\* then exactly one body: the bool is 1 exactly when the body is {VarInt nonce
\* length, nonce bytes} and 0 exactly when it is a SaltSignature; Read of the
\* bytes takes the branch of the body written and consumes them all; and
\* key_bytes = [1, 2], nonce = [0xAA], no signature writes [2, 1, 2, 1, 1, 0xAA].
C20_FlagMatchesBody ==
    /\ wire # <<>> =>
          /\ \/ wire = KeyPart \o <<1>> \o NonceBody
             \/ /\ packet.salt_signature.signature # <<>>
                /\ wire = KeyPart \o <<0>> \o SignatureBody
          /\ (packet.key_bytes = <<1, 2>> /\ packet.nonce = <<170>>
               /\ packet.salt_signature.signature = <<>>)
                 => wire = <<2, 1, 2, 1, 1, 170>>
    /\ ReadBack =>
          /\ decoded.ok /\ decoded.rest = <<>>
          /\ wire[Len(KeyPart) + 1] = 1 =>
                 /\ decoded.v.nonce = packet.nonce
                 /\ decoded.v.salt_signature = decoded.fresh.salt_signature
          /\ wire[Len(KeyPart) + 1] = 0 =>
                 decoded.v.salt_signature = packet.salt_signature /\ decoded.v.nonce = <<>>

\* The packet of the example, written and read back.
C20_Witness ==
    /\ ReadBack
    /\ packet.key_bytes = <<1, 2>> /\ packet.nonce = <<170>>
    /\ packet.salt_signature.signature = <<>>
    /\ wire = <<2, 1, 2, 1, 1, 170>>
    /\ decoded.v.nonce = <<170>>

====
